---------------------------- MODULE Spec2Model ----------------------------
(***************************************************************************)
(* SafeTrace backend: heartbeat ingress (HTTP and SMS), the per-user       *)
(* safety evaluator, alert deduplication and dispatch.                     *)
(*                                                                         *)
(* Time is in whole seconds.  Optional values (Go pointers, absent Redis   *)
(* keys, SQL "no rows") are sequences of length 0 or 1.                    *)
(***************************************************************************)
EXTENDS Integers, Sequences, FiniteSets, TLC

(***************************************************************************)
(* Bounds of the model.                                                    *)
(***************************************************************************)
MaxReq == 2
MaxNow == 4000
MaxTicks == 1

(***************************************************************************)
(* Program constants.                                                      *)
(***************************************************************************)
DefaultHeartbeatWindowSeconds == 600
DefaultLastGaspTimeoutSeconds == 3600
RateLimitWindow == 30
RateLimitLimit == 1
AlertDedupWindow == 300
UserStateTTL == 86400

StateSafe == "SAFE"
StateCaution == "CAUTION"
StateAtRisk == "AT_RISK"
StateAlert == "ALERT"
StateWaitLastGasp == "WAIT_LASTGASP"

HMACSecret == "hmac-secret"

(***************************************************************************)
(* Optional values and float64 values (a float64 may be NaN, for which     *)
(* every ordered comparison is false).                                     *)
(***************************************************************************)
None == <<>>
Some(x) == <<x>>
IsSome(o) == Len(o) = 1
Val(o) == o[1]

Float(v) == [nan |-> FALSE, v |-> v]
NaN == [nan |-> TRUE, v |-> 0]
FloatGE(x, k) == ~x.nan /\ x.v >= k
FloatLT(x, k) == ~x.nan /\ x.v < k

VARIABLES
    now,          \* the wall clock (time.Now / NOW())
    cfg,          \* config.Config thresholds
    users,        \* users table: id -> trusted contact phones
    heartbeats,   \* heartbeats table
    lastGasps,    \* last_gasps table
    alerts,       \* alerts table
    userState,    \* Redis user:state:<uuid>
    rateLimit,    \* Redis ratelimit:<uuid>
    alertSent,    \* Redis alert:sent:<uuid>
    reqs,         \* requests, their spawned evaluations and dispatch goroutines
    ticks,        \* number of times the clock has advanced
    ev            \* one evaluator decision on a drawn input (EvalSpec)

vars == <<now, cfg, users, heartbeats, lastGasps, alerts, userState,
          rateLimit, alertSent, reqs, ticks, ev>>

(***************************************************************************)
(* Safety evaluator: the decision (evaluator.go).                          *)
(***************************************************************************)
EvaluationResult(state, score, reason) ==
    [State |-> state, Score |-> score, Reason |-> reason]

\* time.Since(hb.Timestamp), in seconds
timeSince(hb, t) == t - hb.Timestamp

\* int(d.Minutes()): truncation toward zero of a duration in minutes
Minutes(d) == IF d >= 0 THEN d \div 60 ELSE -((-d) \div 60)

checkDeterministicRules(hb, t, c) ==
    LET timeSinceHeartbeat == timeSince(hb, t) IN
    IF timeSinceHeartbeat < c.HeartbeatWindowSeconds
    THEN IF hb.LastGasp
         THEN Some(EvaluationResult(StateCaution, 60,
                                    <<"LastGasp received - monitoring">>))
         ELSE None
    ELSE IF timeSinceHeartbeat > c.HeartbeatWindowSeconds
         THEN Some(EvaluationResult(StateAtRisk, 30,
                     <<"No heartbeat for %d minutes", Minutes(timeSinceHeartbeat)>>))
         ELSE None

RecencyPoints(hb, t) ==
    LET s == timeSince(hb, t) IN
    IF s < 5 * 60 THEN 30
    ELSE IF s < 10 * 60 THEN 20
    ELSE IF s < 15 * 60 THEN 10
    ELSE 0

AccuracyPoints(hb) ==
    IF hb.AccuracyM < 50 THEN 20
    ELSE IF hb.AccuracyM < 200 THEN 15
    ELSE IF hb.AccuracyM < 500 THEN 10
    ELSE 5

\* a variant that counts every speed below 100 as normal
MovementPointsLenient(hb) ==
    IF IsSome(hb.Speed)
    THEN IF FloatGE(Val(hb.Speed), 100) THEN 10 ELSE 20
    ELSE 15

MovementPoints(hb) ==
    IF IsSome(hb.Speed)
    THEN LET speed == Val(hb.Speed) IN
         IF FloatGE(speed, 0) /\ FloatLT(speed, 100) THEN 20
         ELSE IF FloatGE(speed, 100) THEN 10
         ELSE 0
    ELSE 15

SignalPoints(hb) ==
    IF hb.RSSI > -70 THEN 10
    ELSE IF hb.RSSI > -90 THEN 5
    ELSE 0

SourcePoints(hb) == IF hb.Source = "http" THEN 5 ELSE 3

BatteryPoints(hb) ==
    IF IsSome(hb.BatteryPct)
    THEN IF Val(hb.BatteryPct) > 20 THEN 15
         ELSE IF Val(hb.BatteryPct) > 5 THEN 10
         ELSE 5
    ELSE 10

Clamp(score) == IF score > 100 THEN 100 ELSE IF score < 0 THEN 0 ELSE score

\* a scoring that would count recency twice and skip the bounds check
calculateSafetyScoreUnbounded(hb, t) ==
    2 * RecencyPoints(hb, t) + AccuracyPoints(hb) + MovementPoints(hb)
    + SignalPoints(hb) + SourcePoints(hb) + BatteryPoints(hb)

calculateSafetyScore(hb, t) ==
    Clamp(RecencyPoints(hb, t) + AccuracyPoints(hb) + MovementPoints(hb)
          + SignalPoints(hb) + SourcePoints(hb) + BatteryPoints(hb))

\* a mapping whose CAUTION band would begin at 45
ScoreToResultFrom45(score) ==
    IF score >= 80
    THEN EvaluationResult(StateSafe, score, <<"All indicators normal">>)
    ELSE IF score >= 45
    THEN EvaluationResult(StateCaution, score,
             <<"Some indicators concerning - silent check initiated">>)
    ELSE EvaluationResult(StateAtRisk, score,
             <<"Multiple risk indicators detected">>)

ScoreToResult(score) ==
    IF score >= 80
    THEN EvaluationResult(StateSafe, score, <<"All indicators normal">>)
    ELSE IF score >= 50
    THEN EvaluationResult(StateCaution, score,
             <<"Some indicators concerning - silent check initiated">>)
    ELSE EvaluationResult(StateAtRisk, score,
             <<"Multiple risk indicators detected">>)

WaitLastGaspResult ==
    EvaluationResult(StateWaitLastGasp, 0,
                     <<"LastGasp active - monitoring connectivity">>)

BootstrapResult == EvaluationResult(StateSafe, 100, <<"No heartbeat data yet">>)

\* The part of EvaluateUserSafety that follows the LastGasp check, for the
\* latest heartbeat hbOpt read at time t: the result, and whether the run
\* goes on to SetUserState / handleStateTransition (only a scored result does).
DecideOnHeartbeat(hbOpt, t, c) ==
    IF ~IsSome(hbOpt)
    THEN [result |-> BootstrapResult, scored |-> FALSE]
    ELSE LET det == checkDeterministicRules(Val(hbOpt), t, c) IN
         IF IsSome(det)
         THEN [result |-> Val(det), scored |-> FALSE]
         ELSE [result |-> ScoreToResult(calculateSafetyScore(Val(hbOpt), t)),
               scored |-> TRUE]

(***************************************************************************)
(* Signer (utils/crypto.go).  HMAC-SHA256 is modelled as a perfect MAC: a  *)
(* signature is determined by, and determines, the signed bytes and key.   *)
(***************************************************************************)
SignPayload(payload, secret) == [over |-> payload, key |-> secret]
\* a verification that would compare the signed bytes and not the key
VerifySignatureAnyKey(payload, signature, secret) ==
    signature.over = SignPayload(payload, secret).over

VerifySignature(payload, signature, secret) ==
    signature = SignPayload(payload, secret)

SignString(data, secret) == [over |-> data, key |-> secret]
VerifyStringSignature(data, signature, secret) ==
    signature = SignString(data, secret)

(***************************************************************************)
(* Request inputs.                                                         *)
(***************************************************************************)
Registered == {"u1"}
UserIds == Registered \cup {"u9"}
Contacts == [u \in Registered |-> {"c1", "c2"}]

\* telemetry of a request: a healthy device and a degraded one
GoodTelemetry ==
    [AccuracyM |-> 20, Speed |-> Some(Float(5)), RSSI |-> -60,
     BatteryPct |-> Some(80)]
BadTelemetry ==
    [AccuracyM |-> 600, Speed |-> Some(Float(120)), RSSI |-> -95,
     BatteryPct |-> Some(3)]
Telemetries == {GoodTelemetry, BadTelemetry}

\* seconds by which the client timestamp precedes the arrival of the request
ClientLags == {0}

\* reqForVerification (HTTP) / the SMS body preceding ";sig=": what is signed
SignedFields(uid, ts, tel, lg) ==
    [user_id |-> uid, timestamp |-> ts, tel |-> tel, last_gasp |-> lg]

\* the signatures a client may send: the right one, one made with another
\* key, and the right key over a payload whose last_gasp flag was different
SigKinds == {"valid", "wrongkey", "tampered"}
ClientSignature(how, uid, ts, tel, lg) ==
    IF how = "valid" THEN SignPayload(SignedFields(uid, ts, tel, lg), HMACSecret)
    ELSE IF how = "wrongkey"
    THEN SignPayload(SignedFields(uid, ts, tel, lg), "other-secret")
    ELSE SignPayload(SignedFields(uid, ts, tel, ~lg), HMACSecret)

\* the requests a client sends: a LastGasp comes from a degraded device
Payloads == {p \in [tel : Telemetries, lg : BOOLEAN] : p.lg => p.tel = BadTelemetry}

NoSig == SignPayload(SignedFields("none", 0, GoodTelemetry, FALSE), "none")

IdleReq ==
    [pc |-> "idle", kind |-> "none", fmt |-> "ok", uid |-> "none",
     ts |-> 0, tel |-> GoodTelemetry, lg |-> FALSE, sig |-> NoSig,
     how |-> "none",
     submittedAt |-> 0, resp |-> "none", count |-> 0,
     hbStored |-> FALSE, lgStored |-> FALSE,
     cancelled |-> FALSE, result |-> None, scored |-> FALSE, err |-> FALSE,
     startAt |-> 0, lgSeen |-> {}, cachedAtStart |-> None,
     markAtStart |-> FALSE, before |-> {},
     evalAt |-> 0, hbTs |-> 0, returned |-> FALSE,
     prev |-> None, markSeen |-> FALSE, alertId |-> None,
     contacts |-> {}, smsTo |-> {}, smsFailed |-> {}, burstAt |-> None,
     chkAt |-> 0, markBefore |-> None, markedAt |-> None,
     pinged |-> FALSE,
     param |-> "none", matched |-> FALSE, changed |-> FALSE,
     resolvedBefore |-> None, resolvedAfter |-> None]

(***************************************************************************)
(* Store and StateCache queries (database/postgres.go).                    *)
(***************************************************************************)
HbOf(u) == {h \in heartbeats : h.UserID = u}

\* ORDER BY timestamp DESC LIMIT 1: with equal timestamps any of them
LatestHeartbeats(u) ==
    {h \in HbOf(u) : \A g \in HbOf(u) : g.Timestamp <= h.Timestamp}

\* a query that would only see a LastGasp during its first five minutes
RecentLastGasps(u, t) ==
    {l \in lastGasps : l.UserID = u /\ l.CreatedAt + 5 * 60 > t}

\* a query that would not filter by user_id
ActiveLastGaspsOfAnyone(u, t) == {l \in lastGasps : l.ExpiryTs > t}

\* a query that would ignore expiry_ts
AllLastGasps(u, t) == {l \in lastGasps : l.UserID = u}

\* WHERE user_id = $1 AND expiry_ts > NOW()
ActiveLastGasps(u, t) == {l \in lastGasps : l.UserID = u /\ l.ExpiryTs > t}
GetActiveLastGasp(u, t) == ActiveLastGasps(u, t) # {}

\* a Redis key with a TTL exists until the TTL has elapsed
Live(entry, t) == IsSome(entry) /\ (IsSome(Val(entry).exp) => t < Val(Val(entry).exp))

GetUserState(u, t) == IF Live(userState[u], t) THEN userState[u] ELSE None
\* a check that would never find the mark
CheckAlertSentNever(u, t) == FALSE

CheckAlertSent(u, t) == Live(alertSent[u], t)
RateCount(u, t) == IF Live(rateLimit[u], t) THEN Val(rateLimit[u]).count ELSE 0

CachedState(u, t) ==
    IF IsSome(GetUserState(u, t)) THEN Some(Val(GetUserState(u, t)).State) ELSE None

(***************************************************************************)
(* Bookkeeping shared by the actions.                                      *)
(***************************************************************************)
Slots == DOMAIN reqs
User(i) == reqs[i].uid

\* request slots are used in order
Free(i) == reqs[i].pc = "idle" /\ \A j \in Slots : j < i => reqs[j].pc # "idle"

Upd(i, r) == reqs' = [reqs EXCEPT ![i] = r]

\* a handler that answers and goes on to persist: a c.JSON without return
RespondWithoutReturn(r, code) == [r EXCEPT !.pc = "h_store", !.resp = code]

\* the handler answers and returns; the payload of the request is dropped
Respond(r, code) ==
    [r EXCEPT !.pc = "done", !.resp = code, !.ts = 0, !.tel = GoodTelemetry,
              !.lg = FALSE, !.sig = NoSig]

\* go func() { EvaluateUserSafety(...) }() followed by the success response
SpawnEvaluation(r) ==
    [r EXCEPT !.pc = "e_lg", !.resp = IF r.resp = "none" THEN "200" ELSE r.resp,
              !.ts = 0, !.tel = GoodTelemetry, !.lg = FALSE, !.sig = NoSig]

\* an evaluation whose error would reach the client as a 500
ReturnErrorToClient(r) ==
    [r EXCEPT !.pc = "done", !.err = TRUE, !.returned = TRUE, !.resp = "500"]

\* EvaluateUserSafety returns an error
ReturnError(r) == [r EXCEPT !.pc = "done", !.err = TRUE, !.returned = TRUE]

\* EvaluateUserSafety returns its result
ReturnResult(r) == [r EXCEPT !.pc = "done", !.returned = TRUE]

\* pcs of an EvaluateUserSafety call that has been started and not returned
Evaluating == {"e_lg", "e_hb", "e_set", "e_get", "e_chk", "e_alert", "e_user"}

(***************************************************************************)
(* POST /v1/heartbeat (HeartbeatHandler.CreateHeartbeat).                  *)
(***************************************************************************)
NewRequest(kind, fmt, uid, lag, p, how) ==
    [IdleReq EXCEPT !.kind = kind, !.fmt = fmt, !.uid = uid, !.ts = now - lag,
                    !.tel = p.tel, !.lg = p.lg, !.how = how,
                    !.sig = ClientSignature(how, uid, now - lag, p.tel, p.lg),
                    !.submittedAt = now]

NoPayload == [tel |-> GoodTelemetry, lg |-> FALSE]

\* ShouldBindJSON or uuid.Parse fails: 400
HTTPBadRequest(i, fmt) ==
    /\ Free(i)
    /\ fmt \in {"malformed", "baduid"}
    /\ Upd(i, Respond(NewRequest("http", fmt, "none", 0, NoPayload, "none"),
                      "400"))
    /\ UNCHANGED <<now, cfg, users, heartbeats, lastGasps, alerts, userState,
                   rateLimit, alertSent, ticks, ev>>

\* CheckRateLimit, first call: INCR ratelimit:<uuid>
HTTPSubmit(i, uid, lag, p, how) ==
    /\ Free(i)
    /\ LET r == NewRequest("http", "ok", uid, lag, p, how)
           count == RateCount(uid, now) + 1
           ttl == IF Live(rateLimit[uid], now) THEN Val(rateLimit[uid]).exp ELSE None
       IN  /\ rateLimit' = [rateLimit EXCEPT ![uid] = Some([count |-> count, exp |-> ttl])]
           /\ Upd(i, IF count = 1
                     THEN [r EXCEPT !.pc = "h_expire", !.count = count]
                     ELSE IF count <= RateLimitLimit
                     THEN [r EXCEPT !.pc = "h_user", !.count = count]
                     ELSE Respond([r EXCEPT !.count = count], "429"))
    /\ UNCHANGED <<now, cfg, users, heartbeats, lastGasps, alerts, userState,
                   alertSent, ticks, ev>>

\* CheckRateLimit, second call: EXPIRE ratelimit:<uuid> 30 (its error is dropped)
HTTPExpire(i) ==
    /\ reqs[i].pc = "h_expire"
    /\ LET u == User(i)
           next == IF reqs[i].count <= RateLimitLimit
                   THEN [reqs[i] EXCEPT !.pc = "h_user"]
                   ELSE Respond(reqs[i], "429")
       IN  /\ rateLimit' =
                 IF Live(rateLimit[u], now)
                 THEN [rateLimit EXCEPT ![u] =
                         Some([Val(rateLimit[u]) EXCEPT !.exp = Some(now + RateLimitWindow)])]
                 ELSE rateLimit
           /\ Upd(i, next)
    /\ UNCHANGED <<now, cfg, users, heartbeats, lastGasps, alerts, userState,
                   alertSent, ticks, ev>>

\* GetUserByID, then VerifySignature over reqForVerification
HTTPUser(i) ==
    /\ reqs[i].pc = "h_user"
    /\ LET r == reqs[i] IN
       Upd(i, IF r.uid \notin DOMAIN users
              THEN Respond(r, "404")
              ELSE IF ~VerifySignature(SignedFields(r.uid, r.ts, r.tel, r.lg),
                                       r.sig, HMACSecret)
              THEN Respond(r, "401")
              ELSE [r EXCEPT !.pc = "h_store"])
    /\ UNCHANGED <<now, cfg, users, heartbeats, lastGasps, alerts, userState,
                   rateLimit, alertSent, ticks, ev>>

(***************************************************************************)
(* POST /v1/sms/webhook (SMSHandler.HandleIncomingSMS).                    *)
(***************************************************************************)
\* an empty Body: 400; a body ParseHeartbeatSMS rejects: 200 with a note
SMSRejected(i, fmt) ==
    /\ Free(i)
    /\ fmt \in {"empty", "malformed"}
    /\ Upd(i, Respond(NewRequest("sms", fmt, "none", 0, NoPayload, "none"),
                      IF fmt = "empty" THEN "400" ELSE "200:unparsed"))
    /\ UNCHANGED <<now, cfg, users, heartbeats, lastGasps, alerts, userState,
                   rateLimit, alertSent, ticks, ev>>

\* ParseHeartbeatSMS succeeds, then VerifyStringSignature over the body that
\* precedes ";sig="
SMSSubmit(i, uid, lag, p, how) ==
    /\ Free(i)
    /\ LET r == NewRequest("sms", "ok", uid, lag, p, how) IN
       Upd(i, IF ~VerifyStringSignature(SignedFields(r.uid, r.ts, r.tel, r.lg),
                                        r.sig, HMACSecret)
              THEN Respond(r, "200:badsig")
              ELSE [r EXCEPT !.pc = "s_user"])
    /\ UNCHANGED <<now, cfg, users, heartbeats, lastGasps, alerts, userState,
                   rateLimit, alertSent, ticks, ev>>

\* GetUserByID: an error and an unknown user get the same answer
SMSUser(i) ==
    /\ reqs[i].pc = "s_user"
    /\ LET r == reqs[i] IN
       Upd(i, IF r.uid \notin DOMAIN users
              THEN Respond(r, "200:nouser")
              ELSE [r EXCEPT !.pc = "h_store"])
    /\ UNCHANGED <<now, cfg, users, heartbeats, lastGasps, alerts, userState,
                   rateLimit, alertSent, ticks, ev>>

(***************************************************************************)
(* Both handlers: persist the heartbeat, the LastGasp, spawn the evaluator.*)
(***************************************************************************)
HeartbeatRow(i) ==
    LET r == reqs[i] IN
    [ID |-> i, UserID |-> r.uid, Source |-> r.kind, Timestamp |-> r.ts,
     AccuracyM |-> r.tel.AccuracyM, Speed |-> r.tel.Speed, RSSI |-> r.tel.RSSI,
     BatteryPct |-> r.tel.BatteryPct, LastGasp |-> r.lg, Signature |-> r.sig,
     CreatedAt |-> now]

LastGaspRow(i) ==
    LET r == reqs[i] IN
    [ID |-> i, UserID |-> r.uid, AccuracyM |-> r.tel.AccuracyM,
     RSSI |-> r.tel.RSSI, CreatedAt |-> now,
     ExpiryTs |-> now + cfg.LastGaspTimeoutSeconds]

\* postgres.CreateHeartbeat
StoreHeartbeat(i) ==
    /\ reqs[i].pc = "h_store"
    /\ LET r == reqs[i] IN
       /\ heartbeats' = heartbeats \cup {HeartbeatRow(i)}
       /\ Upd(i, IF r.lg
                 THEN [r EXCEPT !.pc = "h_lg", !.hbStored = TRUE]
                 ELSE SpawnEvaluation([r EXCEPT !.hbStored = TRUE]))
    /\ UNCHANGED <<now, cfg, users, lastGasps, alerts, userState, rateLimit,
                   alertSent, ticks, ev>>

\* postgres.CreateLastGasp: the row is inserted, or the INSERT fails and the
\* handler goes on all the same (its error is dropped)
StoreLastGasp(i) ==
    /\ reqs[i].pc = "h_lg"
    /\ LET r == reqs[i] IN
       \/ /\ lastGasps' = lastGasps \cup {LastGaspRow(i)}
          /\ Upd(i, SpawnEvaluation([r EXCEPT !.lgStored = TRUE]))
       \/ /\ UNCHANGED lastGasps
          /\ Upd(i, SpawnEvaluation(r))
    /\ UNCHANGED <<now, cfg, users, heartbeats, alerts, userState, rateLimit,
                   alertSent, ticks, ev>>

(***************************************************************************)
(* SafetyEvaluator.EvaluateUserSafety, one action per Store / StateCache   *)
(* call.  The goroutine runs on the request's context (c.Copy().Request.   *)
(* Context()), which is cancelled once the handler has returned: from then *)
(* on every call of the run fails.                                         *)
(***************************************************************************)
\* GetActiveLastGasp
EvalLastGasp(i) ==
    /\ reqs[i].pc = "e_lg"
    /\ LET u == User(i)
           r == [reqs[i] EXCEPT !.startAt = now,
                                !.lgSeen = {l.ID : l \in {x \in lastGasps : x.UserID = u}},
                                !.cachedAtStart = CachedState(u, now),
                                !.markAtStart = Live(alertSent[u], now),
                                !.before = {j \in Slots : reqs[j].returned}]
       IN  \/ Upd(i, ReturnError([r EXCEPT !.cancelled = TRUE]))
           \/ Upd(i, IF GetActiveLastGasp(u, now)
                     THEN ReturnResult([r EXCEPT !.result = Some(WaitLastGaspResult)])
                     ELSE [r EXCEPT !.pc = "e_hb"])
    /\ UNCHANGED <<now, cfg, users, heartbeats, lastGasps, alerts, userState,
                   rateLimit, alertSent, ticks, ev>>

\* GetLatestHeartbeat, checkDeterministicRules, calculateSafetyScore
EvalHeartbeat(i) ==
    /\ reqs[i].pc = "e_hb"
    /\ LET u == User(i)
           r == reqs[i]
           found == IF HbOf(u) = {} THEN {None}
                    ELSE {Some(h) : h \in LatestHeartbeats(u)}
       IN  \/ Upd(i, ReturnError([r EXCEPT !.cancelled = TRUE]))
           \/ \E hbOpt \in found :
                LET d == DecideOnHeartbeat(hbOpt, now, cfg)
                    q == [r EXCEPT !.result = Some(d.result), !.scored = d.scored,
                                   !.evalAt = now,
                                   !.hbTs = IF IsSome(hbOpt) THEN Val(hbOpt).Timestamp ELSE 0]
                IN  Upd(i, IF d.scored THEN [q EXCEPT !.pc = "e_set"]
                           ELSE ReturnResult(q))
    /\ UNCHANGED <<now, cfg, users, heartbeats, lastGasps, alerts, userState,
                   rateLimit, alertSent, ticks, ev>>

UserStateRecord(r, t) ==
    [State |-> Val(r.result).State, Score |-> Val(r.result).Score,
     LastHeartbeat |-> r.hbTs, exp |-> Some(t + UserStateTTL)]

\* redis.SetUserState (its error is dropped)
EvalSetUserState(i) ==
    /\ reqs[i].pc = "e_set"
    /\ LET u == User(i)
           r == reqs[i]
       IN  \/ /\ Upd(i, [r EXCEPT !.pc = "e_get", !.cancelled = TRUE])
              /\ UNCHANGED userState
           \/ /\ userState' = [userState EXCEPT ![u] = Some(UserStateRecord(r, now))]
              /\ Upd(i, [r EXCEPT !.pc = "e_get"])
    /\ UNCHANGED <<now, cfg, users, heartbeats, lastGasps, alerts, rateLimit,
                   alertSent, ticks, ev>>

\* a transition handler that would not compare with the previous state
AfterPrevStateUncompared(r, prev) ==
    IF Val(r.result).State \in {StateAtRisk, StateAlert}
    THEN [r EXCEPT !.pc = "e_chk"]
    ELSE ReturnResult(r)

\* what handleStateTransition does once it has read the previous state
AfterPrevState(r, prev) ==
    LET newState == Val(r.result).State IN
    IF IsSome(prev) /\ Val(prev).State = newState /\ newState # StateAlert
    THEN ReturnResult(r)
    ELSE IF newState \in {StateAtRisk, StateAlert}
    THEN [r EXCEPT !.pc = "e_chk"]
    ELSE ReturnResult(r)

\* handleStateTransition: redis.GetUserState
EvalGetUserState(i) ==
    /\ reqs[i].pc = "e_get"
    /\ LET u == User(i)
           r == reqs[i]
       IN  \/ Upd(i, ReturnError([r EXCEPT !.cancelled = TRUE]))
           \/ /\ ~r.cancelled
              /\ Upd(i, AfterPrevState([r EXCEPT !.prev = CachedState(u, now)],
                                       GetUserState(u, now)))
    /\ UNCHANGED <<now, cfg, users, heartbeats, lastGasps, alerts, userState,
                   rateLimit, alertSent, ticks, ev>>

\* when the AlertSent mark of user u was last written, if it ever was
LastMark(u) ==
    LET at == {Val(reqs[j].markedAt) : j \in {k \in Slots : reqs[k].uid = u
                                                          /\ IsSome(reqs[k].markedAt)}}
    IN  IF at = {} THEN None
        ELSE Some(CHOOSE t \in at : \A x \in at : x <= t)

\* handleStateTransition: redis.CheckAlertSent
EvalCheckAlertSent(i) ==
    /\ reqs[i].pc = "e_chk"
    /\ LET u == User(i)
           r == reqs[i]
           q == [r EXCEPT !.chkAt = now, !.markBefore = LastMark(u)]
       IN  \/ Upd(i, ReturnError([r EXCEPT !.cancelled = TRUE]))
           \/ Upd(i, IF CheckAlertSent(u, now)
                     THEN ReturnResult([q EXCEPT !.markSeen = TRUE])
                     ELSE [q EXCEPT !.pc = "e_alert"])
    /\ UNCHANGED <<now, cfg, users, heartbeats, lastGasps, alerts, userState,
                   rateLimit, alertSent, ticks, ev>>

\* a row that would be written with the state ALERT
AlertRowInStateAlert(i) ==
    LET r == reqs[i] IN
    [ID |-> i, UserID |-> r.uid, State |-> StateAlert,
     Score |-> Val(r.result).Score, Reason |-> Val(r.result).Reason,
     SentTo |-> <<>>, CreatedAt |-> now, ResolvedAt |-> None]

AlertRow(i) ==
    LET r == reqs[i] IN
    [ID |-> i, UserID |-> r.uid, State |-> Val(r.result).State,
     Score |-> Val(r.result).Score, Reason |-> Val(r.result).Reason,
     SentTo |-> <<>>, CreatedAt |-> now, ResolvedAt |-> None]

\* handleStateTransition: postgres.CreateAlert
EvalCreateAlert(i) ==
    /\ reqs[i].pc = "e_alert"
    /\ LET r == reqs[i] IN
       \/ /\ Upd(i, ReturnError([r EXCEPT !.cancelled = TRUE]))
          /\ UNCHANGED alerts
       \/ /\ alerts' = alerts \cup {AlertRow(i)}
          /\ Upd(i, [r EXCEPT !.pc = "e_user", !.alertId = Some(i)])
    /\ UNCHANGED <<now, cfg, users, heartbeats, lastGasps, userState, rateLimit,
                   alertSent, ticks, ev>>

\* handleStateTransition: postgres.GetUserByID and GetLatestHeartbeat (two
\* reads), then the dispatch goroutine is started and the evaluation returns
EvalSpawnDispatch(i) ==
    /\ reqs[i].pc = "e_user"
    /\ LET r == reqs[i] IN
       \/ Upd(i, ReturnError([r EXCEPT !.cancelled = TRUE]))
       \/ Upd(i, IF r.uid \notin DOMAIN users
                 THEN ReturnError(r)
                 ELSE [r EXCEPT !.pc = "d_send", !.returned = TRUE,
                                !.contacts = users[r.uid]])
    /\ UNCHANGED <<now, cfg, users, heartbeats, lastGasps, alerts, userState,
                   rateLimit, alertSent, ticks, ev>>

(***************************************************************************)
(* The dispatch goroutine (context.Background()).                          *)
(***************************************************************************)
\* AlertEngine.SendAlertToContacts: an SMS (and a WhatsApp message) to every
\* trusted contact; failed are the contacts whose SMS Twilio refused
SendAlertToContacts(i, failed) ==
    /\ reqs[i].pc = "d_send"
    /\ failed \subseteq reqs[i].contacts
    /\ Upd(i, [reqs[i] EXCEPT !.pc = "d_mark", !.smsTo = reqs[i].contacts,
                              !.smsFailed = failed, !.burstAt = Some(now)])
    /\ UNCHANGED <<now, cfg, users, heartbeats, lastGasps, alerts, userState,
                   rateLimit, alertSent, ticks, ev>>

\* a mark that would be written with twice the window as its TTL
MarkAlertSentTwiceAsLong(i) ==
    /\ reqs[i].pc = "d_mark"
    /\ LET u == User(i) IN
       /\ alertSent' = [alertSent EXCEPT ![u] = Some([exp |-> Some(now + 2 * AlertDedupWindow)])]
       /\ Upd(i, [reqs[i] EXCEPT !.pc = "done", !.markedAt = Some(now)])
    /\ UNCHANGED <<now, cfg, users, heartbeats, lastGasps, alerts, userState,
                   rateLimit, ticks, ev>>

\* redis.MarkAlertSent (its error is dropped)
MarkAlertSent(i) ==
    /\ reqs[i].pc = "d_mark"
    /\ LET u == User(i) IN
       /\ alertSent' = [alertSent EXCEPT ![u] = Some([exp |-> Some(now + AlertDedupWindow)])]
       /\ Upd(i, [reqs[i] EXCEPT !.pc = "done", !.markedAt = Some(now)])
    /\ UNCHANGED <<now, cfg, users, heartbeats, lastGasps, alerts, userState,
                   rateLimit, ticks, ev>>

(***************************************************************************)
(* The clock.  Every guard of the program compares the clock with a        *)
(* deadline, so time advances to the next instant at which a guard can     *)
(* change: an expiry, or an age threshold of a stored heartbeat.           *)
(***************************************************************************)
Expiries(cache) ==
    {Val(Val(cache[u]).exp) : u \in {x \in DOMAIN cache :
                                       IsSome(cache[x]) /\ IsSome(Val(cache[x]).exp)}}

Deadlines ==
    Expiries(rateLimit) \cup Expiries(alertSent) \cup Expiries(userState)
    \cup {l.ExpiryTs : l \in lastGasps}
    \cup {h.Timestamp + d : h \in heartbeats,
                            d \in {a \in {5 * 60, 10 * 60, 15 * 60} :
                                      a <= cfg.HeartbeatWindowSeconds}
                                  \cup {cfg.HeartbeatWindowSeconds,
                                        cfg.HeartbeatWindowSeconds + 1}}

TickTargets == {t \in Deadlines : t > now /\ t <= MaxNow}

Tick(t) ==
    /\ t \in TickTargets
    /\ ticks < MaxTicks
    /\ now' = t
    /\ ticks' = ticks + 1
    /\ UNCHANGED <<cfg, users, heartbeats, lastGasps, alerts, userState,
                   rateLimit, alertSent, reqs, ev>>

(***************************************************************************)
(* The service.                                                            *)
(***************************************************************************)
DefaultConfig ==
    [HeartbeatWindowSeconds |-> DefaultHeartbeatWindowSeconds,
     LastGaspTimeoutSeconds |-> DefaultLastGaspTimeoutSeconds]

NoEval == [phase |-> "off"]

Init ==
    /\ now = 0
    /\ cfg = DefaultConfig
    /\ users = Contacts
    /\ heartbeats = {}
    /\ lastGasps = {}
    /\ alerts = {}
    /\ userState = [u \in UserIds |-> None]
    /\ rateLimit = [u \in UserIds |-> None]
    /\ alertSent = [u \in UserIds |-> None]
    /\ reqs = [i \in 1..MaxReq |-> IdleReq]
    /\ ticks = 0
    /\ ev = NoEval

Next ==
    \/ \E i \in Slots, fmt \in {"malformed", "baduid"} : HTTPBadRequest(i, fmt)
    \/ \E i \in Slots, uid \in UserIds, lag \in ClientLags, p \in Payloads,
          how \in SigKinds : HTTPSubmit(i, uid, lag, p, how)
    \/ \E i \in Slots : HTTPExpire(i)
    \/ \E i \in Slots : HTTPUser(i)
    \/ \E i \in Slots, fmt \in {"empty", "malformed"} : SMSRejected(i, fmt)
    \/ \E i \in Slots, uid \in UserIds, lag \in ClientLags, p \in Payloads,
          how \in SigKinds : SMSSubmit(i, uid, lag, p, how)
    \/ \E i \in Slots : SMSUser(i)
    \/ \E i \in Slots : StoreHeartbeat(i)
    \/ \E i \in Slots : StoreLastGasp(i)
    \/ \E i \in Slots : EvalLastGasp(i)
    \/ \E i \in Slots : EvalHeartbeat(i)
    \/ \E i \in Slots : EvalSetUserState(i)
    \/ \E i \in Slots : EvalGetUserState(i)
    \/ \E i \in Slots : EvalCheckAlertSent(i)
    \/ \E i \in Slots : EvalCreateAlert(i)
    \/ \E i \in Slots : EvalSpawnDispatch(i)
    \/ \E i \in Slots : \E failed \in SUBSET reqs[i].contacts : SendAlertToContacts(i, failed)
    \/ \E i \in Slots : MarkAlertSent(i)
    \/ \E t \in TickTargets : Tick(t)

Spec == Init /\ [][Next]_vars

(***************************************************************************)
(* The evaluator's decision as a function of what its two queries return:  *)
(* whether a LastGasp is active, the latest heartbeat (if any), the clock   *)
(* and the configured window.  EvalSpec draws these from boundary values    *)
(* of every comparison the decision makes and applies the decision once.    *)
(***************************************************************************)
EvaluateDecision(lgActive, hbOpt, t, c) ==
    IF lgActive
    THEN [result |-> WaitLastGaspResult, scored |-> FALSE]
    ELSE DecideOnHeartbeat(hbOpt, t, c)

EvalClock == 2000
EvalAges == {-60, 0, 299, 300, 599, 600, 601, 899, 900, 1199, 1200, 1201}
EvalWindows == {600, 1200}
EvalAccuracies == {49, 50, 199, 200, 499, 500}
EvalSpeeds == {None, Some(NaN), Some(Float(-1)), Some(Float(0)), Some(Float(99)),
               Some(Float(100))}
EvalRSSIs == {-95, -90, -89, -70, -69}
EvalBatteries == {None, Some(0), Some(5), Some(6), Some(20), Some(21)}

EvalHeartbeats ==
    [Timestamp : {EvalClock - a : a \in EvalAges}, AccuracyM : EvalAccuracies,
     Speed : EvalSpeeds, RSSI : EvalRSSIs, Source : {"http", "sms"},
     BatteryPct : EvalBatteries, LastGasp : BOOLEAN]

\* a LastGasp is active only in front of a few heartbeats: the decision does
\* not read the heartbeat then
EvalInputs ==
    [lgActive : {FALSE}, hb : {Some(h) : h \in EvalHeartbeats} \cup {None}]
    \cup [lgActive : {TRUE},
          hb : {None} \cup {Some(h) : h \in {g \in EvalHeartbeats :
                                               /\ g.AccuracyM = 49
                                               /\ g.RSSI = -69
                                               /\ g.BatteryPct = Some(21)
                                               /\ g.Source = "http"}}]

EvalConfigs ==
    [HeartbeatWindowSeconds : EvalWindows,
     LastGaspTimeoutSeconds : {DefaultLastGaspTimeoutSeconds}]

EvalInit ==
    /\ now = EvalClock
    /\ cfg \in EvalConfigs
    /\ users = Contacts
    /\ heartbeats = {}
    /\ lastGasps = {}
    /\ alerts = {}
    /\ userState = [u \in UserIds |-> None]
    /\ rateLimit = [u \in UserIds |-> None]
    /\ alertSent = [u \in UserIds |-> None]
    /\ reqs = [i \in 1..MaxReq |-> IdleReq]
    /\ ticks = 0
    /\ \E in \in EvalInputs :
         ev = [phase |-> "in", lgActive |-> in.lgActive, hb |-> in.hb,
               result |-> None, scored |-> FALSE]

Evaluate ==
    /\ ev.phase = "in"
    /\ LET d == EvaluateDecision(ev.lgActive, ev.hb, now, cfg) IN
       ev' = [ev EXCEPT !.phase = "out", !.result = Some(d.result),
                        !.scored = d.scored]
    /\ UNCHANGED <<now, cfg, users, heartbeats, lastGasps, alerts, userState,
                   rateLimit, alertSent, reqs, ticks>>

EvalNext == Evaluate

EvalSpec == EvalInit /\ [][EvalNext]_vars


(***************************************************************************)
(* Properties of the decision (EvalSpec).                                  *)
(***************************************************************************)
EvAge == now - Val(ev.hb).Timestamp
EvDecided == ev.phase = "out"
EvOnHeartbeat == EvDecided /\ ~ev.lgActive /\ IsSome(ev.hb)

\* C9: every evaluation with no active LastGasp whose latest heartbeat has
\* age >= heartbeat_window, an age equal to the window included, results in
\* AT_RISK with score 30 and reason "No heartbeat for N minutes", N the whole
\* minutes of the age, whatever the telemetry of the heartbeat.
C9_StaleFromWindowOn ==
    (EvOnHeartbeat /\ EvAge >= cfg.HeartbeatWindowSeconds)
        => /\ ~ev.scored
           /\ Val(ev.result) =
                EvaluationResult(StateAtRisk, 30,
                                 <<"No heartbeat for %d minutes", EvAge \div 60>>)

\* C9, the failing input: a heartbeat whose age equals the window, with
\* perfect telemetry, is scored and found SAFE with score 80.
C9_ScoredAtWindow ==
    /\ EvOnHeartbeat
    /\ EvAge = cfg.HeartbeatWindowSeconds
    /\ ev.scored
    /\ Val(ev.result).State = StateSafe
    /\ Val(ev.result).Score = 80

\* The component table of the specification, read on its own terms.
TableRecency(age) ==
    IF age < 5 * 60 THEN 30 ELSE IF age < 10 * 60 THEN 20
    ELSE IF age < 15 * 60 THEN 10 ELSE 0
TableAccuracy(m) ==
    IF m < 50 THEN 20 ELSE IF m < 200 THEN 15 ELSE IF m < 500 THEN 10 ELSE 5
TableSignal(rssi) == IF rssi > -70 THEN 10 ELSE IF rssi > -90 THEN 5 ELSE 0
TableSource(src) == IF src = "http" THEN 5 ELSE 3
TableBattery(b) ==
    IF ~IsSome(b) THEN 10
    ELSE IF Val(b) > 20 THEN 15 ELSE IF Val(b) > 5 THEN 10 ELSE 5
TableClamp(n) == IF n > 100 THEN 100 ELSE IF n < 0 THEN 0 ELSE n
TableBand(score) ==
    IF score >= 80 THEN StateSafe
    ELSE IF score >= 50 THEN StateCaution ELSE StateAtRisk

SpeedNormal(sp) == IsSome(sp) /\ ~Val(sp).nan /\ Val(sp).v >= 0 /\ Val(sp).v < 100
SpeedHigh(sp) == IsSome(sp) /\ ~Val(sp).nan /\ Val(sp).v >= 100

\* the movement rows of the table: 20 / 10 / 15; the table has no row for a
\* speed that is present and neither normal nor high
TableMovement(sp) ==
    IF ~IsSome(sp) THEN {15}
    ELSE IF SpeedNormal(sp) THEN {20}
    ELSE IF SpeedHigh(sp) THEN {10}
    ELSE {20, 10, 15}

\* the same rows, with 0 points for a present speed that is negative or NaN
TableMovementOrZero(sp) ==
    IF ~IsSome(sp) THEN 15
    ELSE IF SpeedNormal(sp) THEN 20
    ELSE IF SpeedHigh(sp) THEN 10
    ELSE 0

TableRest(hb, age) ==
    TableRecency(age) + TableAccuracy(hb.AccuracyM) + TableSignal(hb.RSSI)
    + TableSource(hb.Source) + TableBattery(hb.BatteryPct)

EvReachesScoring ==
    /\ EvOnHeartbeat
    /\ EvAge < cfg.HeartbeatWindowSeconds
    /\ ~Val(ev.hb).LastGasp

\* C10 as stated: a heartbeat that reaches scoring gets the sum of the six
\* table components with movement worth 20, 10 or 15, clamped to [0,100],
\* and the state of the band of that score.
C10_ScoreIsTableSum ==
    EvReachesScoring
        => /\ ev.scored
           /\ \E m \in TableMovement(Val(ev.hb).Speed) :
                Val(ev.result).Score = TableClamp(TableRest(Val(ev.hb), EvAge) + m)
           /\ Val(ev.result).State = TableBand(Val(ev.result).Score)

\* C10, amended: a heartbeat that reaches scoring gets the sum of the six
\* table components, where movement is worth 20 / 10 / 15 and 0 for a speed
\* that is present but negative or NaN, clamped to [0,100], and the state is
\* SAFE from 80, CAUTION from 50 to 79 and AT_RISK below 50.
C10_ScoreIsTableSumOrZeroMovement ==
    EvReachesScoring
        => /\ ev.scored
           /\ Val(ev.result).Score =
                TableClamp(TableRest(Val(ev.hb), EvAge)
                           + TableMovementOrZero(Val(ev.hb).Speed))
           /\ Val(ev.result).State = TableBand(Val(ev.result).Score)

\* C10: a fresh heartbeat with a negative speed and otherwise perfect
\* telemetry has been scored 30 + 20 + 0 + 10 + 5 + 15 = 80.
C10_NegativeSpeedScored ==
    /\ EvReachesScoring
    /\ ev.scored
    /\ Val(ev.hb).Speed = Some(Float(-1))
    /\ EvAge = 0
    /\ Val(ev.result).Score = 80
    /\ Val(ev.result).State = StateSafe


(***************************************************************************)
(* Properties of the service (Spec).                                       *)
(***************************************************************************)
Rejections == {"400", "401", "404", "429", "200:unparsed", "200:badsig",
               "200:nouser"}

RowsOf(table, i) == {x \in table : x.ID = i}

\* EvaluateUserSafety of request i has returned a result
Evaluated(i) == reqs[i].returned /\ ~reqs[i].err /\ IsSome(reqs[i].result)
EvaluatedAs(i, state) == Evaluated(i) /\ Val(reqs[i].result).State = state

\* the signed fields of a persisted heartbeat
RowSignedFields(h) ==
    SignedFields(h.UserID, h.Timestamp,
                 [AccuracyM |-> h.AccuracyM, Speed |-> h.Speed, RSSI |-> h.RSSI,
                  BatteryPct |-> h.BatteryPct],
                 h.LastGasp)

\* C5: a call of EvaluateUserSafety that makes its LastGasp query while a
\* LastGasp of the user is unexpired returns WAIT_LASTGASP with score 0,
\* whatever heartbeats exist, and touches neither the cached state nor the
\* alerts.
C5_ActiveLastGaspDominates ==
    \A i \in Slots :
        (/\ Evaluated(i)
         /\ \E l \in lastGasps : /\ l.UserID = reqs[i].uid
                                 /\ l.ID \in reqs[i].lgSeen
                                 /\ l.ExpiryTs > reqs[i].startAt)
            => /\ Val(reqs[i].result).State = StateWaitLastGasp
               /\ Val(reqs[i].result).Score = 0
               /\ ~reqs[i].scored
               /\ reqs[i].alertId = None

\* C5: the run of a later heartbeat with last_gasp = false and healthy
\* telemetry has returned WAIT_LASTGASP because of an earlier LastGasp.
C5_WaitDespiteNewerHeartbeat ==
    \E i \in Slots, h \in heartbeats :
        /\ h.ID = i
        /\ ~h.LastGasp
        /\ h.AccuracyM = GoodTelemetry.AccuracyM
        /\ EvaluatedAs(i, StateWaitLastGasp)
        /\ \E l \in lastGasps : l.ID # i /\ l.ID \in reqs[i].lgSeen

\* C6: every Heartbeat row carries a signature that is the HMAC of the row's
\* own signed fields under the process secret, every LastGasp row belongs to
\* such a heartbeat, and a request whose signature does not verify has
\* created neither.
C6_PersistedMeansVerified ==
    /\ \A h \in heartbeats :
         h.Signature = [over |-> RowSignedFields(h), key |-> HMACSecret]
    /\ \A l \in lastGasps : \E h \in heartbeats : h.ID = l.ID /\ h.LastGasp
    /\ \A i \in Slots :
         reqs[i].how \in {"wrongkey", "tampered"}
            => RowsOf(heartbeats, i) = {} /\ RowsOf(lastGasps, i) = {}

\* C6: a heartbeat has been persisted and another request has been turned
\* down for its signature.
C6_OneStoredOneRefused ==
    /\ heartbeats # {}
    /\ \E i \in Slots : /\ reqs[i].resp \in {"401", "200:badsig"}
                        /\ reqs[i].uid \in Registered

SameUser(i, j) == i # j /\ reqs[i].uid = reqs[j].uid

Dist(a, b) == IF a >= b THEN a - b ELSE b - a

\* C8: of two heartbeats of one user submitted within 30 seconds of each
\* other, by HTTP or by SMS, the second is rejected and not persisted: no
\* two persisted heartbeats of a user were submitted less than 30 s apart.
C8_OnePerWindow ==
    \A g, h \in heartbeats :
        (g.ID # h.ID /\ g.UserID = h.UserID)
            => Dist(reqs[g.ID].submittedAt, reqs[h.ID].submittedAt)
                    >= RateLimitWindow

\* C8, the failing input: two SMS heartbeats of one user submitted in the
\* same second are both persisted and both answered with success.
C8_TwoSmsInOneWindow ==
    \E g, h \in heartbeats :
        /\ g.ID # h.ID /\ g.UserID = h.UserID
        /\ g.Source = "sms" /\ h.Source = "sms"
        /\ reqs[g.ID].submittedAt = reqs[h.ID].submittedAt
        /\ reqs[g.ID].resp = "200" /\ reqs[h.ID].resp = "200"

\* the run of request i is the only one its user has had
OnlyRun(i) == \A j \in Slots : ~SameUser(i, j)

\* the Alert row the run of request i has persisted, as the claim wants it
AlertPersisted(i) ==
    \E a \in alerts : /\ a.ID = i /\ a.UserID = reqs[i].uid
                      /\ a.SentTo = <<>> /\ a.ResolvedAt = None

\* C2: an evaluation that yields AT_RISK for a user whose cached state was
\* absent or different before it, with no AlertSent mark, has persisted an
\* Alert row (sent_to = [], resolved_at = null), and once its work is over
\* an SMS has been attempted to every trusted contact.
C2_AtRiskRaisesAlert ==
    \A i \in Slots :
        (/\ EvaluatedAs(i, StateAtRisk)
         /\ OnlyRun(i)
         /\ reqs[i].cachedAtStart # Some(StateAtRisk)
         /\ ~reqs[i].markAtStart)
            => /\ AlertPersisted(i)
               /\ reqs[i].pc = "done" => reqs[i].smsTo = users[reqs[i].uid]

\* C2, the failing input: the only evaluation of a user scored AT_RISK on a
\* five-minute-old degraded heartbeat, with nothing cached and no mark, and
\* returned without an Alert row or an SMS.
C2_AtRiskWithoutAlert ==
    \E i \in Slots :
        /\ EvaluatedAs(i, StateAtRisk)
        /\ reqs[i].scored
        /\ OnlyRun(i)
        /\ reqs[i].cachedAtStart = None
        /\ ~reqs[i].markAtStart
        /\ reqs[i].pc = "done"
        /\ alerts = {}
        /\ reqs[i].smsTo = {}
        /\ CachedState(reqs[i].uid, now) = Some(StateAtRisk)

\* run i had returned, and its dispatch was over, before run j started
Precedes(i, j) == SameUser(i, j) /\ i \in reqs[j].before

AlertsOf(u) == {a \in alerts : a.UserID = u}
BurstsOf(u) == {i \in Slots : reqs[i].uid = u /\ IsSome(reqs[i].burstAt)}

\* C4: two evaluations of a user that do not overlap, start within five
\* minutes of each other and both yield AT_RISK, the first from a cached
\* state that is absent or not AT_RISK, leave exactly one Alert row of the
\* user and exactly one dispatch burst.
C4_TwoAtRiskOneAlert ==
    \A i, j \in Slots :
        (/\ Precedes(i, j)
         /\ EvaluatedAs(i, StateAtRisk) /\ EvaluatedAs(j, StateAtRisk)
         /\ reqs[i].pc = "done" /\ reqs[j].pc = "done"
         /\ reqs[j].startAt - reqs[i].startAt <= AlertDedupWindow
         /\ reqs[i].cachedAtStart # Some(StateAtRisk))
            => /\ Cardinality(AlertsOf(reqs[i].uid)) = 1
               /\ Cardinality(BurstsOf(reqs[i].uid)) = 1

\* C4, the failing input: two AT_RISK evaluations in a row, the first from
\* an empty cache, and no Alert row and no burst at all.
C4_TwoAtRiskNoAlert ==
    \E i, j \in Slots :
        /\ Precedes(i, j)
        /\ EvaluatedAs(i, StateAtRisk) /\ EvaluatedAs(j, StateAtRisk)
        /\ reqs[i].pc = "done" /\ reqs[j].pc = "done"
        /\ reqs[i].cachedAtStart = None
        /\ reqs[j].cachedAtStart = Some(StateAtRisk)
        /\ alerts = {}
        /\ BurstsOf(reqs[i].uid) = {}

\* nothing of the service is running: every request has been answered and
\* every goroutine it started is over
Quiet == \A i \in Slots : reqs[i].pc \in {"idle", "done"}

\* the user's latest heartbeat is older than the window and no LastGasp of
\* the user is unexpired
Silent(u) ==
    /\ HbOf(u) # {}
    /\ \A h \in HbOf(u) : now - h.Timestamp > cfg.HeartbeatWindowSeconds
    /\ \A l \in lastGasps : l.UserID = u => l.ExpiryTs <= now

Notified(u) == \E i \in BurstsOf(u) : reqs[i].smsTo = users[u]

\* C1: when a user with a persisted heartbeat and no active LastGasp has
\* been silent for longer than the window, the service on its own brings
\* the user's state to AT_RISK and notifies the contacts: once nothing of
\* the service is left running, the state is AT_RISK and a burst has gone
\* out.
C1_SilenceBecomesAtRisk ==
    \A u \in Registered :
        (Quiet /\ Silent(u))
            => CachedState(u, now) = Some(StateAtRisk) /\ Notified(u)

\* C1, the failing input: one healthy heartbeat, evaluated SAFE on arrival;
\* the window has passed, nothing is running, the cached state is still
\* SAFE and nobody has been notified.
C1_SilentAndStillSafe ==
    \E u \in Registered :
        /\ Quiet /\ Silent(u)
        /\ Cardinality(HbOf(u)) = 1
        /\ CachedState(u, now) = Some(StateSafe)
        /\ alerts = {}
        /\ ~Notified(u)


(***************************************************************************)
(* Three evaluator runs of one user side by side (RaceSpec).  Two degraded *)
(* SMS heartbeats arrived at second 0 and their runs read them five        *)
(* minutes later, before a healthy third heartbeat was persisted at second *)
(* RaceClock and read by its own run: every run has its result and is      *)
(* about to call SetUserState.                                             *)
(***************************************************************************)
RaceRuns == 3
RaceClock == 300
RaceUser == "u1"

RaceArrival(i) == IF i < RaceRuns THEN 0 ELSE RaceClock
RaceTelemetry(i) == IF i < RaceRuns THEN BadTelemetry ELSE GoodTelemetry

RaceHeartbeat(i) ==
    LET tel == RaceTelemetry(i) IN
    [ID |-> i, UserID |-> RaceUser, Source |-> "sms", Timestamp |-> RaceArrival(i),
     AccuracyM |-> tel.AccuracyM, Speed |-> tel.Speed, RSSI |-> tel.RSSI,
     BatteryPct |-> tel.BatteryPct, LastGasp |-> FALSE,
     Signature |-> ClientSignature("valid", RaceUser, RaceArrival(i), tel, FALSE),
     CreatedAt |-> RaceArrival(i)]

RaceRun(i) ==
    LET d == DecideOnHeartbeat(Some(RaceHeartbeat(i)), RaceClock, DefaultConfig) IN
    [IdleReq EXCEPT !.pc = "e_set", !.kind = "sms", !.uid = RaceUser,
                    !.how = "valid", !.submittedAt = RaceArrival(i),
                    !.resp = "200", !.hbStored = TRUE,
                    !.result = Some(d.result), !.scored = d.scored,
                    !.startAt = RaceClock, !.evalAt = RaceClock,
                    !.hbTs = RaceArrival(i)]

RaceInit ==
    /\ now = RaceClock
    /\ cfg = DefaultConfig
    /\ users = Contacts
    /\ heartbeats = {RaceHeartbeat(i) : i \in 1..RaceRuns}
    /\ lastGasps = {}
    /\ alerts = {}
    /\ userState = [u \in UserIds |-> None]
    /\ rateLimit = [u \in UserIds |-> None]
    /\ alertSent = [u \in UserIds |-> None]
    /\ reqs = [i \in 1..RaceRuns |-> RaceRun(i)]
    /\ ticks = 0
    /\ ev = NoEval

RaceNext ==
    \/ \E i \in Slots : EvalSetUserState(i)
    \/ \E i \in Slots : EvalGetUserState(i)
    \/ \E i \in Slots : EvalCheckAlertSent(i)
    \/ \E i \in Slots : EvalCreateAlert(i)
    \/ \E i \in Slots : EvalSpawnDispatch(i)
    \/ \E i \in Slots : \E failed \in SUBSET reqs[i].contacts : SendAlertToContacts(i, failed)
    \/ \E i \in Slots : MarkAlertSent(i)
    \/ \E t \in TickTargets : Tick(t)

RaceSpec == RaceInit /\ [][RaceNext]_vars

\* C3 as stated: for each user, any two dispatch bursts are at least five
\* minutes apart, under every interleaving of evaluator runs.
C3_OneBurstPerWindow ==
    \A i, j \in Slots :
        (SameUser(i, j) /\ IsSome(reqs[i].burstAt) /\ IsSome(reqs[j].burstAt))
            => Dist(Val(reqs[i].burstAt), Val(reqs[j].burstAt)) >= AlertDedupWindow

\* C3, amended: a run gets past the dedup check, and so to an Alert row and
\* a dispatch burst, only if at its CheckAlertSent no AlertSent mark of the
\* user had been written in the five minutes before; runs that make the
\* check before an earlier burst has written its mark each start a burst.
C3_BurstOnlyPastClearCheck ==
    \A i \in Slots :
        (IsSome(reqs[i].alertId) \/ IsSome(reqs[i].burstAt)
         \/ reqs[i].pc \in {"e_alert", "e_user", "d_send", "d_mark"})
            => \/ reqs[i].markBefore = None
               \/ reqs[i].chkAt >= Val(reqs[i].markBefore) + AlertDedupWindow

\* C3: one run has sent its burst and written the mark, and a later AT_RISK
\* run of the same user found the mark and returned without a burst.
C3_SecondRunSuppressed ==
    \E i, j \in Slots :
        /\ SameUser(i, j)
        /\ IsSome(reqs[i].burstAt) /\ IsSome(reqs[i].markedAt)
        /\ EvaluatedAs(j, StateAtRisk)
        /\ reqs[j].markSeen /\ reqs[j].pc = "done"
        /\ reqs[j].markBefore = reqs[i].markedAt
        /\ reqs[j].burstAt = None /\ reqs[j].alertId = None

(***************************************************************************)
(* Further properties of the decision (EvalSpec).                          *)
(***************************************************************************)
\* C11: every score the evaluation returns, for every heartbeat and every
\* branch (WAIT_LASTGASP, bootstrap, deterministic rules, scoring), is an
\* integer from 0 to 100, and so is every score in a UserState or an Alert.
C11_ScoreInRange ==
    /\ EvDecided => Val(ev.result).Score \in 0..100
    /\ \A u \in UserIds : IsSome(userState[u]) => Val(userState[u]).Score \in 0..100
    /\ \A a \in alerts : a.Score \in 0..100

\* C11: a fresh heartbeat with perfect telemetry has been scored 100, the
\* top of the range.
C11_TopScore ==
    /\ EvOnHeartbeat /\ ev.scored
    /\ Val(ev.result).Score = 100
    /\ Val(ev.result).State = StateSafe

(***************************************************************************)
(* The same heartbeat evaluated twice, the second time later (AgingSpec):  *)
(* no LastGasp is active, heartbeat and thresholds stay as they are and    *)
(* the clock moves on to another boundary age.                             *)
(***************************************************************************)
AgingHeartbeats ==
    {h \in EvalHeartbeats : /\ h.AccuracyM \in {49, 500}
                            /\ h.RSSI \in {-95, -69}
                            /\ h.BatteryPct \in {Some(0), Some(21)}}

AgingInit ==
    /\ now = EvalClock
    /\ cfg \in EvalConfigs
    /\ users = Contacts
    /\ heartbeats = {}
    /\ lastGasps = {}
    /\ alerts = {}
    /\ userState = [u \in UserIds |-> None]
    /\ rateLimit = [u \in UserIds |-> None]
    /\ alertSent = [u \in UserIds |-> None]
    /\ reqs = [i \in 1..MaxReq |-> IdleReq]
    /\ ticks = 0
    /\ \E h \in AgingHeartbeats :
         ev = [phase |-> "in", lgActive |-> FALSE, hb |-> Some(h),
               result |-> None, scored |-> FALSE, first |-> None, firstAt |-> 0]

\* EvaluateUserSafety once more, at the later time t
Reevaluate(t) ==
    /\ ev.phase = "out"
    /\ t >= now
    /\ t \in {Val(ev.hb).Timestamp + a : a \in EvalAges}
    /\ now' = t
    /\ LET d == EvaluateDecision(ev.lgActive, ev.hb, t, cfg) IN
       ev' = [ev EXCEPT !.phase = "again", !.first = ev.result, !.firstAt = now,
                        !.result = Some(d.result), !.scored = d.scored]
    /\ UNCHANGED <<cfg, users, heartbeats, lastGasps, alerts, userState,
                   rateLimit, alertSent, reqs, ticks>>

AgingNext ==
    \/ Evaluate
    \/ \E t \in EvalClock..(EvalClock + 1300) : Reevaluate(t)

AgingSpec == AgingInit /\ [][AgingNext]_vars

\* C12: for a fixed heartbeat and fixed thresholds, with no active LastGasp,
\* an evaluation made later never returns a greater score than an earlier
\* one, also where the stale rule takes over from scoring.
C12_ScoreNeverRisesWithAge ==
    ev.phase = "again" => Val(ev.result).Score <= Val(ev.first).Score

\* C12, the failing input: with a window of 1200 s a heartbeat with poor
\* telemetry was scored below 30 just before the window ended and got the
\* stale rule's 30 just after it.
C12_RisesAtWindow ==
    /\ ev.phase = "again"
    /\ cfg.HeartbeatWindowSeconds = 1200
    /\ ~Val(ev.hb).LastGasp
    /\ Val(ev.hb).AccuracyM = 500 /\ Val(ev.hb).RSSI = -95
    /\ Val(ev.hb).BatteryPct = Some(0) /\ Val(ev.hb).Source = "sms"
    /\ Val(ev.hb).Speed = Some(Float(100))
    /\ ev.firstAt - Val(ev.hb).Timestamp = 1199
    /\ now - Val(ev.hb).Timestamp = 1201
    /\ ev.scored = FALSE
    /\ Val(ev.first).Score < 30 /\ Val(ev.first).State = StateAtRisk
    /\ Val(ev.result).Score = 30 /\ Val(ev.result).State = StateAtRisk

\* C13: the evaluation started by a heartbeat with last_gasp = true that is
\* younger than the heartbeat window returns CAUTION with score 60.
C13_LastGaspIngestIsCaution ==
    \A i \in Slots, h \in heartbeats :
        (/\ Evaluated(i)
         /\ h.ID = i /\ h.LastGasp
         /\ reqs[i].startAt - h.Timestamp < cfg.HeartbeatWindowSeconds)
            => /\ Val(reqs[i].result).State = StateCaution
               /\ Val(reqs[i].result).Score = 60

\* C13, the failing input: the only request so far carried last_gasp = true;
\* its own LastGasp row was there when its evaluation started, and the
\* evaluation returned WAIT_LASTGASP with score 0.
C13_LastGaspIngestWaits ==
    \E i \in Slots, h \in heartbeats :
        /\ heartbeats = {h} /\ h.ID = i /\ h.LastGasp
        /\ \A j \in Slots \ {i} : reqs[j].pc = "idle"
        /\ reqs[i].startAt - h.Timestamp < cfg.HeartbeatWindowSeconds
        /\ reqs[i].lgSeen = {i}
        /\ EvaluatedAs(i, StateWaitLastGasp)
        /\ Val(reqs[i].result).Score = 0

\* GET /v1/user/:id/status for a well-formed id: the cached record, or
\* UNKNOWN when the cache has none
GetUserStatus(u, t) ==
    IF GetUserState(u, t) = None
    THEN [code |-> "200", state |-> "UNKNOWN", score |-> None]
    ELSE [code |-> "200", state |-> Val(GetUserState(u, t)).State,
          score |-> Some(Val(GetUserState(u, t)).Score)]

\* C14: once the only evaluation of a user has returned result R, the cached
\* UserState carries R's state and score and the status endpoint reports
\* them, whichever branch produced R.
C14_ResultIsCached ==
    \A i \in Slots :
        (Evaluated(i) /\ OnlyRun(i))
            => /\ GetUserStatus(reqs[i].uid, now).state = Val(reqs[i].result).State
               /\ GetUserStatus(reqs[i].uid, now).score = Some(Val(reqs[i].result).Score)

\* C14, the failing input: the only evaluation of the user has returned
\* WAIT_LASTGASP and the status endpoint still answers UNKNOWN.
C14_WaitNeverCached ==
    \E i \in Slots :
        /\ OnlyRun(i)
        /\ EvaluatedAs(i, StateWaitLastGasp)
        /\ ~reqs[i].cancelled
        /\ userState[reqs[i].uid] = None
        /\ GetUserStatus(reqs[i].uid, now).state = "UNKNOWN"

\* C15: an evaluation that makes its LastGasp query when every LastGasp of
\* the user has expiry_ts <= now does not return WAIT_LASTGASP but a SAFE,
\* CAUTION or AT_RISK result; and LastGasp rows are never removed, expired
\* or not.
C15_ExpiredLastGaspIgnored ==
    /\ \A i \in Slots :
         (/\ Evaluated(i)
          /\ \A l \in lastGasps :
               (l.UserID = reqs[i].uid /\ l.ID \in reqs[i].lgSeen)
                  => l.ExpiryTs <= reqs[i].startAt)
            => Val(reqs[i].result).State \in {StateSafe, StateCaution, StateAtRisk}
    /\ \A i \in Slots :
         /\ reqs[i].lgStored => RowsOf(lastGasps, i) # {}
         /\ reqs[i].lgSeen \subseteq {l.ID : l \in lastGasps}

\* C15: an evaluation started at the instant the user's only LastGasp
\* expired has seen the expired row, which is still stored, and has returned
\* something other than WAIT_LASTGASP.
C15_ResumedAfterExpiry ==
    \E i \in Slots, l \in lastGasps :
        /\ l.UserID = reqs[i].uid
        /\ l.ID \in reqs[i].lgSeen
        /\ l.ExpiryTs = reqs[i].startAt
        /\ Evaluated(i)
        /\ Val(reqs[i].result).State # StateWaitLastGasp

(***************************************************************************)
(* POST /v1/alert/:id/resolve (ResolveSpec): some alerts exist, resolve    *)
(* requests arrive one after another while the clock moves on.             *)
(***************************************************************************)
MaxResolveClock == 3
AlertIds == {1, 2}
ResolveParams == {"not-a-uuid", "1", "2", "3"}

\* uuid.Parse of the path parameter
ParseAlertId(p) ==
    IF p = "1" THEN Some(1)
    ELSE IF p = "2" THEN Some(2)
    ELSE IF p = "3" THEN Some(3)
    ELSE None

\* an UPDATE without its WHERE clause
PostgresResolveEveryAlert(rows, id, t) ==
    {[a EXCEPT !.ResolvedAt = Some(t)] : a \in rows}

\* UPDATE alerts SET resolved_at = NOW() WHERE id = $1
PostgresResolveAlert(rows, id, t) ==
    {IF a.ID = id THEN [a EXCEPT !.ResolvedAt = Some(t)] ELSE a : a \in rows}

StoredAlert(id) ==
    [ID |-> id, UserID |-> "u1", State |-> StateAtRisk, Score |-> 30,
     Reason |-> <<"No heartbeat for 10 minutes">>,
     SentTo |-> <<>>, CreatedAt |-> 0, ResolvedAt |-> None]

ResolveInit ==
    /\ now = 0
    /\ cfg = DefaultConfig
    /\ users = Contacts
    /\ heartbeats = {}
    /\ lastGasps = {}
    /\ \E ids \in SUBSET AlertIds : alerts = {StoredAlert(id) : id \in ids}
    /\ userState = [u \in UserIds |-> None]
    /\ rateLimit = [u \in UserIds |-> None]
    /\ alertSent = [u \in UserIds |-> None]
    /\ reqs = [i \in 1..MaxReq |-> IdleReq]
    /\ ticks = 0
    /\ ev = NoEval

\* HeartbeatHandler.ResolveAlert: 400 for an id that does not parse, else the
\* UPDATE and 200
ResolveAlert(i, p) ==
    /\ Free(i)
    /\ LET r == [IdleReq EXCEPT !.kind = "resolve", !.param = p,
                                !.submittedAt = now, !.pc = "done"]
       IN  IF ParseAlertId(p) = None
           THEN /\ Upd(i, [r EXCEPT !.resp = "400"])
                /\ UNCHANGED alerts
           ELSE LET id == Val(ParseAlertId(p))
                    hit == {a \in alerts : a.ID = id}
                    after == PostgresResolveAlert(alerts, id, now)
                IN  /\ alerts' = after
                    /\ Upd(i, [r EXCEPT
                          !.resp = "200",
                          !.matched = (hit # {}),
                          !.changed = (after # alerts),
                          !.resolvedBefore =
                              IF hit = {} THEN None
                              ELSE (CHOOSE a \in hit : TRUE).ResolvedAt,
                          !.resolvedAfter =
                              IF hit = {} THEN None
                              ELSE (CHOOSE a \in after : a.ID = id).ResolvedAt])
    /\ UNCHANGED <<now, cfg, users, heartbeats, lastGasps, userState,
                   rateLimit, alertSent, ticks, ev>>

\* time passes between two requests
Elapse ==
    /\ now < MaxResolveClock
    /\ now' = now + 1
    /\ UNCHANGED <<cfg, users, heartbeats, lastGasps, alerts, userState,
                   rateLimit, alertSent, reqs, ticks, ev>>

ResolveNext ==
    \/ \E i \in Slots, p \in ResolveParams : ResolveAlert(i, p)
    \/ Elapse

ResolveSpec == ResolveInit /\ [][ResolveNext]_vars

Resolving(i) == reqs[i].kind = "resolve" /\ reqs[i].resp # "none"

\* C16: a resolve request with a well-formed id that matches no alert is
\* answered 404 and changes no alert; a 200 is given only when an alert with
\* that id exists.
C16_UnknownAlertIsNotFound ==
    \A i \in Slots :
        Resolving(i) =>
            /\ (IsSome(ParseAlertId(reqs[i].param)) /\ ~reqs[i].matched)
                  => reqs[i].resp = "404" /\ ~reqs[i].changed
            /\ reqs[i].resp = "200" => reqs[i].matched

\* C16, the failing input: no alert has id 3, and the request to resolve
\* alert 3 was answered 200 (and changed nothing).
C16_UnknownAlertAnswered200 ==
    \E i \in Slots :
        /\ Resolving(i)
        /\ reqs[i].param = "3"
        /\ \A a \in alerts : a.ID # 3
        /\ ~reqs[i].matched /\ ~reqs[i].changed
        /\ reqs[i].resp = "200"

\* C17: a resolve request for an alert that is already resolved leaves its
\* resolved_at as it was.
C17_ResolvedOnce ==
    \A i \in Slots :
        (Resolving(i) /\ reqs[i].matched /\ IsSome(reqs[i].resolvedBefore))
            => reqs[i].resolvedAfter = reqs[i].resolvedBefore

\* C17, the failing input: alert 1 was resolved at one time and resolved
\* again later, and now carries the later time.
C17_ResolvedAgainLater ==
    \E i, j \in Slots, a \in alerts :
        /\ i < j
        /\ Resolving(i) /\ Resolving(j)
        /\ reqs[i].param = "1" /\ reqs[j].param = "1" /\ a.ID = 1
        /\ reqs[i].resolvedBefore = None
        /\ IsSome(reqs[i].resolvedAfter)
        /\ reqs[j].resolvedBefore = reqs[i].resolvedAfter
        /\ reqs[j].submittedAt > reqs[i].submittedAt
        /\ a.ResolvedAt = Some(reqs[j].submittedAt)
        /\ a.ResolvedAt # reqs[j].resolvedBefore

\* EvaluateUserSafety of request i has been spawned
Spawned(i) ==
    reqs[i].pc \in Evaluating \cup {"d_send", "d_mark"} \/ reqs[i].returned

\* C18: a request whose evaluation has been spawned carries the success
\* response 200 from the moment of the spawn, while the evaluation has not
\* started, while it runs, after it has returned a result or an error, and
\* whatever the SMS dispatch did.
C18_ResponseIgnoresEvaluation ==
    \A i \in Slots :
        /\ Spawned(i) => reqs[i].resp = "200"
        /\ (reqs[i].err \/ reqs[i].cancelled \/ reqs[i].smsFailed # {})
              => reqs[i].resp = "200"

\* C18: one evaluation has failed, another is still at its first call, and
\* both requests were answered 200.
C18_FailedAndPendingBoth200 ==
    \E i, j \in Slots :
        /\ reqs[i].returned /\ reqs[i].err /\ reqs[i].resp = "200"
        /\ reqs[j].pc = "e_lg" /\ reqs[j].resp = "200"

\* C19: none of the calls of a spawned evaluation is aborted by the end of
\* the request that spawned it, so a spawned evaluation never returns an
\* error for that reason.
C19_EvaluationOutlivesRequest ==
    \A i \in Slots :
        Spawned(i) => ~reqs[i].cancelled /\ ~reqs[i].err

\* C19, the failing input: the heartbeat was stored and answered 200, and its
\* evaluation was cut off by the cancelled request context at its very first
\* call, returning an error and no result.
C19_CancelledAtFirstCall ==
    \E i \in Slots :
        /\ reqs[i].hbStored /\ reqs[i].resp = "200"
        /\ reqs[i].returned /\ reqs[i].err /\ reqs[i].cancelled
        /\ reqs[i].result = None
        /\ reqs[i].lgSeen = {}
        /\ \A j \in Slots \ {i} : reqs[j].pc = "idle"

\* C20: every answered request to the SMS webhook has HTTP status 200,
\* whether it was accepted or turned down for an empty body, a parse
\* failure, an invalid signature, an unknown user or a storage failure.
C20_SmsAlways200 ==
    \A i \in Slots :
        (reqs[i].kind = "sms" /\ reqs[i].resp # "none")
            => reqs[i].resp \in {"200", "200:unparsed", "200:badsig",
                                 "200:nouser", "200:storage"}

\* C20, the failing input: a webhook request with an empty Body was answered
\* with status 400 and nothing was stored.
C20_EmptyBody400 ==
    \E i \in Slots :
        /\ reqs[i].kind = "sms"
        /\ reqs[i].fmt = "empty"
        /\ reqs[i].resp = "400"
        /\ reqs[i].pc = "done"
        /\ RowsOf(heartbeats, i) = {}

(***************************************************************************)
(* Text.  A string is a sequence of one-character strings, so that         *)
(* strings.Split, strings.TrimSpace, strconv and fmt can be modelled by    *)
(* what they do to the characters.                                         *)
(***************************************************************************)
DigitChars == <<"0", "1", "2", "3", "4", "5", "6", "7", "8", "9">>
IsDigit(c) == \E d \in 1..10 : DigitChars[d] = c
DigitVal(c) == (CHOOSE d \in 1..10 : DigitChars[d] = c) - 1

RECURSIVE Pow10(_)
Pow10(k) == IF k = 0 THEN 1 ELSE 10 * Pow10(k - 1)

\* the decimal digits of n >= 0, at least one
RECURSIVE Digits(_)
Digits(n) ==
    IF n < 10 THEN <<DigitChars[n + 1]>>
    ELSE Digits(n \div 10) \o <<DigitChars[(n % 10) + 1]>>

\* the decimal digits of n >= 0, padded with zeros to w characters
RECURSIVE ZeroPad(_, _)
ZeroPad(n, w) ==
    IF Len(Digits(n)) >= w THEN Digits(n)
    ELSE IF w = 0 THEN <<>>
    ELSE ZeroPad(n \div 10, w - 1) \o <<DigitChars[(n % 10) + 1]>>

\* fmt.Sprintf("%d", n)
Itoa(n) == IF n < 0 THEN <<"-">> \o Digits(0 - n) ELSE Digits(n)

AllDigits(s) == s # <<>> /\ \A k \in 1..Len(s) : IsDigit(s[k])

RECURSIVE DigitsValue(_)
DigitsValue(s) ==
    IF s = <<>> THEN 0
    ELSE 10 * DigitsValue(SubSeq(s, 1, Len(s) - 1)) + DigitVal(s[Len(s)])

\* strconv.Atoi: an optional sign and decimal digits, nothing else
Atoi(s) ==
    IF s # <<>> /\ s[1] \in {"-", "+"}
    THEN IF AllDigits(Tail(s))
         THEN Some((IF s[1] = "-" THEN -1 ELSE 1) * DigitsValue(Tail(s)))
         ELSE None
    ELSE IF AllDigits(s) THEN Some(DigitsValue(s)) ELSE None

\* strings.Index for a one-character separator: 0 when absent
IndexOf(s, c) ==
    IF \E k \in 1..Len(s) : s[k] = c
    THEN CHOOSE k \in 1..Len(s) : s[k] = c /\ \A j \in 1..(k - 1) : s[j] # c
    ELSE 0

\* strings.Split(s, sep) for a one-character separator
RECURSIVE Split(_, _)
Split(s, sep) ==
    IF IndexOf(s, sep) = 0 THEN <<s>>
    ELSE <<SubSeq(s, 1, IndexOf(s, sep) - 1)>>
         \o Split(SubSeq(s, IndexOf(s, sep) + 1, Len(s)), sep)

\* strings.SplitN(s, sep, 2)
SplitN2(s, sep) ==
    IF IndexOf(s, sep) = 0 THEN <<s>>
    ELSE <<SubSeq(s, 1, IndexOf(s, sep) - 1), SubSeq(s, IndexOf(s, sep) + 1, Len(s))>>

\* strings.Join(parts, sep)
RECURSIVE Join(_, _)
Join(parts, sep) ==
    IF parts = <<>> THEN <<>>
    ELSE IF Len(parts) = 1 THEN parts[1]
    ELSE parts[1] \o sep \o Join(Tail(parts), sep)

\* strings.TrimSpace
RECURSIVE TrimSpace(_)
TrimSpace(s) ==
    IF s = <<>> THEN s
    ELSE IF s[1] = " " THEN TrimSpace(Tail(s))
    ELSE IF s[Len(s)] = " " THEN TrimSpace(SubSeq(s, 1, Len(s) - 1))
    ELSE s

\* a parse that would drop the fraction
ParseFloatWhole(s, k) ==
    LET dot == IndexOf(s, ".")
        ip == IF dot = 0 THEN s ELSE SubSeq(s, 1, dot - 1)
    IN  IF AllDigits(ip) THEN Some(Float(DigitsValue(ip) * Pow10(k))) ELSE None

\* strconv.ParseFloat(s, 64), the value kept as an integer number of
\* 10^-k units: an optional sign, digits with an optional fraction, or NaN
\* (the texts drawn below have at most k fractional digits)
ParseFloat(s, k) ==
    IF s = <<"N", "a", "N">> THEN Some(NaN)
    ELSE LET neg == s # <<>> /\ s[1] = "-"
             body == IF s # <<>> /\ s[1] \in {"-", "+"} THEN Tail(s) ELSE s
             dot == IndexOf(body, ".")
             ip == IF dot = 0 THEN body ELSE SubSeq(body, 1, dot - 1)
             fp == IF dot = 0 THEN <<>> ELSE SubSeq(body, dot + 1, Len(body))
             fk == SubSeq(fp, 1, IF Len(fp) < k THEN Len(fp) ELSE k)
             ok == /\ Len(ip) + Len(fp) >= 1
                   /\ \A j \in 1..Len(ip) : IsDigit(ip[j])
                   /\ \A j \in 1..Len(fp) : IsDigit(fp[j])
             mag == DigitsValue(ip) * Pow10(k) + DigitsValue(fk) * Pow10(k - Len(fk))
         IN  IF ok THEN Some(Float(IF neg THEN 0 - mag ELSE mag)) ELSE None

\* fmt.Sprintf("%.<d>f", x) for x held in 10^-k units, d <= k: rounded to d
\* decimals
FormatFloat(x, k, d) ==
    IF x.nan THEN <<"N", "a", "N">>
    ELSE LET mag == IF x.v < 0 THEN 0 - x.v ELSE x.v
             unit == Pow10(k - d)
             q == (2 * mag + unit) \div (2 * unit)
         IN  (IF x.v < 0 THEN <<"-">> ELSE <<>>)
             \o Digits(q \div Pow10(d)) \o <<".">> \o ZeroPad(q % Pow10(d), d)

\* time.Time.Format(time.RFC3339) of an instant in milliseconds: whole
\* seconds, written here as "T" and the number of seconds
FormatRFC3339(ms) == <<"T">> \o Digits(ms \div 1000)

\* time.Parse(time.RFC3339, s)
ParseRFC3339(s) ==
    IF s # <<>> /\ s[1] = "T" /\ AllDigits(Tail(s))
    THEN Some(1000 * DigitsValue(Tail(s)))
    ELSE None

\* uuid.UUID.String and uuid.Parse, on the ids of the model; "Z" is the
\* text of uuid.Nil
UUIDNil == "nil"
UUIDString(u) ==
    IF u = "u1" THEN <<"A">> ELSE IF u = "u9" THEN <<"B">> ELSE <<"Z">>

UUIDParse(s) ==
    IF s = <<"A">> THEN Some("u1")
    ELSE IF s = <<"B">> THEN Some("u9")
    ELSE IF s = <<"Z">> THEN Some(UUIDNil)
    ELSE None

(***************************************************************************)
(* The SMS codec (SMSParser in evaluator.go).  Latitude and longitude are  *)
(* held in 10^-7 degrees, speed in 10^-2 km/h, timestamps in milliseconds. *)
(***************************************************************************)
CoordDigits == 7
SpeedDigits == 2

KeyUid == <<"u", "i", "d">>
KeyTs == <<"t", "s">>
KeyLat == <<"l", "a", "t">>
KeyLng == <<"l", "n", "g">>
KeyAcc == <<"a", "c", "c">>
KeyCell == <<"c", "e", "l", "l">>
KeyBat == <<"b", "a", "t">>
KeySpd == <<"s", "p", "d">>
KeyLg == <<"l", "g">>
KeySig == <<"s", "i", "g">>

ZeroCellInfo == [MCC |-> 0, MNC |-> 0, CID |-> 0, LAC |-> 0, RSSI |-> 0]

\* &models.Heartbeat{Source: "sms"}: every other field has its zero value
EmptySmsHeartbeat ==
    [UserID |-> UUIDNil, Timestamp |-> 0, Lat |-> Float(0), Lng |-> Float(0),
     AccuracyM |-> 0, CellInfo |-> ZeroCellInfo, BatteryPct |-> None,
     Speed |-> None, LastGasp |-> FALSE, Signature |-> <<>>, Source |-> "sms"]

\* parseCellInfo: mcc,mnc,cid,lac,rssi; components beyond the fifth are
\* not read
parseCellInfo(cellStr) ==
    LET parts == Split(cellStr, ",") IN
    IF Len(parts) < 5 THEN None
    ELSE IF \E k \in 1..5 : Atoi(parts[k]) = None THEN None
    ELSE Some([MCC |-> Val(Atoi(parts[1])), MNC |-> Val(Atoi(parts[2])),
               CID |-> Val(Atoi(parts[3])), LAC |-> Val(Atoi(parts[4])),
               RSSI |-> Val(Atoi(parts[5]))])

ParseFailed(msg) == [err |-> msg, hb |-> None]

\* the body of the loop over the parts: one key=value part applied to hb;
\* a part without "=" or with an unknown key leaves hb as it is
ParsePart(part, hb) ==
    LET kv == SplitN2(part, "=") IN
    IF Len(kv) # 2 THEN [err |-> "", hb |-> Some(hb)]
    ELSE LET key == TrimSpace(kv[1])
             value == TrimSpace(kv[2])
             ok(h) == [err |-> "", hb |-> Some(h)]
         IN  IF key = KeyUid
             THEN IF UUIDParse(value) = None THEN ParseFailed("invalid user ID")
                  ELSE ok([hb EXCEPT !.UserID = Val(UUIDParse(value))])
             ELSE IF key = KeyTs
             THEN IF ParseRFC3339(value) = None THEN ParseFailed("invalid timestamp")
                  ELSE ok([hb EXCEPT !.Timestamp = Val(ParseRFC3339(value))])
             ELSE IF key = KeyLat
             THEN IF ParseFloat(value, CoordDigits) = None
                  THEN ParseFailed("invalid latitude")
                  ELSE ok([hb EXCEPT !.Lat = Val(ParseFloat(value, CoordDigits))])
             ELSE IF key = KeyLng
             THEN IF ParseFloat(value, CoordDigits) = None
                  THEN ParseFailed("invalid longitude")
                  ELSE ok([hb EXCEPT !.Lng = Val(ParseFloat(value, CoordDigits))])
             ELSE IF key = KeyAcc
             THEN IF Atoi(value) = None THEN ParseFailed("invalid accuracy")
                  ELSE ok([hb EXCEPT !.AccuracyM = Val(Atoi(value))])
             ELSE IF key = KeyCell
             THEN IF parseCellInfo(value) = None THEN ParseFailed("invalid cell info")
                  ELSE ok([hb EXCEPT !.CellInfo = Val(parseCellInfo(value))])
             ELSE IF key = KeyBat
             THEN IF Atoi(value) = None THEN ok(hb)
                  ELSE ok([hb EXCEPT !.BatteryPct = Atoi(value)])
             ELSE IF key = KeySpd
             THEN IF ParseFloat(value, SpeedDigits) = None THEN ok(hb)
                  ELSE ok([hb EXCEPT !.Speed = ParseFloat(value, SpeedDigits)])
             ELSE IF key = KeyLg
             THEN ok([hb EXCEPT !.LastGasp =
                          (value = <<"1">> \/ value = <<"t", "r", "u", "e">>)])
             ELSE IF key = KeySig
             THEN ok([hb EXCEPT !.Signature = value])
             ELSE ok(hb)

\* for _, part := range parts: the first failing part ends the parse
RECURSIVE ParseParts(_, _)
ParseParts(parts, hb) ==
    IF parts = <<>> THEN [err |-> "", hb |-> Some(hb)]
    ELSE LET r == ParsePart(parts[1], hb) IN
         IF r.err # "" THEN r ELSE ParseParts(Tail(parts), Val(r.hb))

\* SMSParser.ParseHeartbeatSMS: [err, hb], err = "" on success
ParseHeartbeatSMS(smsBody) ==
    LET parts == Split(smsBody, ";") IN
    IF Len(parts) < 6 THEN ParseFailed("insufficient fields")
    ELSE LET r == ParseParts(parts, EmptySmsHeartbeat) IN
         IF r.err # "" THEN r
         ELSE IF Val(r.hb).UserID = UUIDNil THEN ParseFailed("missing user ID")
         ELSE IF Val(r.hb).Timestamp = 0 THEN ParseFailed("missing timestamp")
         ELSE IF Val(r.hb).Signature = <<>> THEN ParseFailed("missing signature")
         ELSE r

\* SMSParser.BuildSMSPayload
BuildSMSPayload(hb) ==
    Join(<<KeyUid \o <<"=">> \o UUIDString(hb.UserID),
           KeyTs \o <<"=">> \o FormatRFC3339(hb.Timestamp),
           KeyLat \o <<"=">> \o FormatFloat(hb.Lat, CoordDigits, 6),
           KeyLng \o <<"=">> \o FormatFloat(hb.Lng, CoordDigits, 6),
           KeyAcc \o <<"=">> \o Itoa(hb.AccuracyM),
           KeyCell \o <<"=">> \o Join(<<Itoa(hb.CellInfo.MCC), Itoa(hb.CellInfo.MNC),
                                        Itoa(hb.CellInfo.CID), Itoa(hb.CellInfo.LAC),
                                        Itoa(hb.CellInfo.RSSI)>>, <<",">>)>>
         \o (IF IsSome(hb.BatteryPct)
             THEN <<KeyBat \o <<"=">> \o Itoa(Val(hb.BatteryPct))>> ELSE <<>>)
         \o (IF IsSome(hb.Speed)
             THEN <<KeySpd \o <<"=">> \o FormatFloat(Val(hb.Speed), SpeedDigits, 1)>>
             ELSE <<>>)
         \o (IF hb.LastGasp THEN <<KeyLg \o <<"=", "1">>>> ELSE <<>>)
         \o <<KeySig \o <<"=">> \o hb.Signature>>,
         <<";">>)

(***************************************************************************)
(* The SMS text path (SmsSpec): a body arrives at the webhook, either      *)
(* written by hand out of good and flawed fields or built from a           *)
(* heartbeat by BuildSMSPayload, with or without a foreign field put in.   *)
(***************************************************************************)
Field(key, value) == key \o <<"=">> \o value

\* one choice for a field of a hand-written body: the parts it contributes
\* and what is wrong with it
Choice(parts, flaws) == [parts |-> parts, flaws |-> flaws]

UidChoices ==
    {Choice(<<Field(KeyUid, <<"A">>)>>, {}),
     Choice(<<>>, {"uid missing"}),
     Choice(<<Field(KeyUid, <<"?">>)>>, {"uid invalid"})}
TsChoices ==
    {Choice(<<Field(KeyTs, <<"T", "7">>)>>, {}),
     Choice(<<>>, {"ts missing"}),
     Choice(<<Field(KeyTs, <<"7">>)>>, {"ts invalid"})}
LatChoices ==
    {Choice(<<Field(KeyLat, <<"6", ".", "5">>)>>, {}),
     Choice(<<Field(KeyLat, <<"6", ",", "5">>)>>, {"lat not a number"})}
LngChoices ==
    {Choice(<<Field(KeyLng, <<"3", ".", "3">>)>>, {}),
     Choice(<<Field(KeyLng, <<"E">>)>>, {"lng not a number"})}
AccChoices ==
    {Choice(<<Field(KeyAcc, <<"2", "0">>)>>, {}),
     Choice(<<Field(KeyAcc, <<"2", "0", "m">>)>>, {"acc not a number"})}
CellChoices ==
    {Choice(<<Field(KeyCell, <<"1", ",", "2", ",", "3", ",", "4", ",", "-", "8", "5">>)>>, {}),
     Choice(<<Field(KeyCell, <<"1", ",", "2", ",", "x", ",", "4", ",", "-", "8", "5">>)>>,
            {"cell not a number"})}
BatChoices ==
    {Choice(<<>>, {}),
     Choice(<<Field(KeyBat, <<"8", "0">>)>>, {}),
     Choice(<<Field(KeyBat, <<"8", "0", "%">>)>>, {"bat not a number"})}
SpdChoices ==
    {Choice(<<>>, {}),
     Choice(<<Field(KeySpd, <<"5", ".", "0">>)>>, {}),
     Choice(<<Field(KeySpd, <<"f", "a", "s", "t">>)>>, {"spd not a number"})}
\* the signature field: last, absent, with a space before its value,
\* followed by another field, or given twice
SigChoices ==
    {Choice(<<Field(KeySig, <<"a", "b">>)>>, {}),
     Choice(<<>>, {"sig missing"}),
     Choice(<<Field(KeySig, <<" ", "a", "b">>)>>, {"sig spaced"}),
     Choice(<<Field(KeySig, <<"a", "b">>), Field(KeyLg, <<"1">>)>>, {"sig not last"}),
     Choice(<<Field(KeySig, <<"c", "d">>), Field(KeySig, <<"a", "b">>)>>, {"sig twice"})}

WrittenBodies ==
    {[body |-> Join(u.parts \o t.parts \o la.parts \o ln.parts \o a.parts
                    \o c.parts \o b.parts \o s.parts \o g.parts, <<";">>),
      flaws |-> u.flaws \cup t.flaws \cup la.flaws \cup ln.flaws \cup a.flaws
                \cup c.flaws \cup b.flaws \cup s.flaws \cup g.flaws] :
        u \in UidChoices, t \in TsChoices, la \in LatChoices, ln \in LngChoices,
        a \in AccChoices, c \in CellChoices, b \in BatChoices, s \in SpdChoices,
        g \in SigChoices}

\* heartbeats a client may hold: whole and fractional seconds, coordinates
\* with six and with seven decimals, speeds with one and with two decimals
CodecHeartbeats ==
    [UserID : {"u1"}, Timestamp : {7000, 7500},
     Lat : {Float(65000000), Float(65244001)}, Lng : {Float(33792000)},
     AccuracyM : {200},
     CellInfo : {[MCC |-> 621, MNC |-> 20, CID |-> 12345, LAC |-> 678, RSSI |-> -85]},
     BatteryPct : {None, Some(80)},
     Speed : {None, Some(Float(500)), Some(Float(1234))},
     LastGasp : BOOLEAN, Signature : {<<"a", "b">>}, Source : {"sms"}]

UnknownField == Field(<<"x">>, <<"1">>)

\* the payload with a field put in as part number k + 1
InsertPart(body, part, k) ==
    LET parts == Split(body, ";") IN
    Join(SubSeq(parts, 1, k) \o <<part>> \o SubSeq(parts, k + 1, Len(parts)), <<";">>)

NoParse == [err |-> "not parsed", hb |-> None]

SmsInit ==
    /\ now = 0
    /\ cfg = DefaultConfig
    /\ users = Contacts
    /\ heartbeats = {}
    /\ lastGasps = {}
    /\ alerts = {}
    /\ userState = [u \in UserIds |-> None]
    /\ rateLimit = [u \in UserIds |-> None]
    /\ alertSent = [u \in UserIds |-> None]
    /\ reqs = [i \in 1..MaxReq |-> IdleReq]
    /\ ticks = 0
    /\ \/ \E w \in WrittenBodies :
            ev = [phase |-> "body", body |-> w.body, flaws |-> w.flaws,
                  src |-> None, foreign |-> FALSE, parse |-> NoParse, signed |-> <<>>]
       \/ \E h \in CodecHeartbeats :
            ev = [phase |-> "hb", body |-> <<>>, flaws |-> {},
                  src |-> Some(h), foreign |-> FALSE, parse |-> NoParse, signed |-> <<>>]

\* the client builds the text of its heartbeat
BuildPayload ==
    /\ ev.phase = "hb"
    /\ ev' = [ev EXCEPT !.phase = "body", !.body = BuildSMSPayload(Val(ev.src))]
    /\ UNCHANGED <<now, cfg, users, heartbeats, lastGasps, alerts, userState,
                   rateLimit, alertSent, reqs, ticks>>

\* a field with an unknown key gets into the built text before it arrives
InsertUnknown(k) ==
    /\ ev.phase = "body"
    /\ IsSome(ev.src) /\ ~ev.foreign
    /\ k \in 0..Len(Split(ev.body, ";"))
    /\ ev' = [ev EXCEPT !.body = InsertPart(ev.body, UnknownField, k),
                        !.foreign = TRUE]
    /\ UNCHANGED <<now, cfg, users, heartbeats, lastGasps, alerts, userState,
                   rateLimit, alertSent, reqs, ticks>>

\* the data HandleIncomingSMS hands to VerifyStringSignature:
\* body[:len(body)-len(heartbeat.Signature)-5]
SignedPart(body, hb) == SubSeq(body, 1, Len(body) - Len(hb.Signature) - 5)

\* HandleIncomingSMS up to the signature check: ParseHeartbeatSMS, then the
\* slice of the body that is verified
ParseIncomingSMS ==
    /\ ev.phase = "body"
    /\ LET r == ParseHeartbeatSMS(ev.body) IN
       ev' = [ev EXCEPT !.phase = "parsed", !.parse = r,
                        !.signed = IF r.err = "" THEN SignedPart(ev.body, Val(r.hb))
                                   ELSE <<>>]
    /\ UNCHANGED <<now, cfg, users, heartbeats, lastGasps, alerts, userState,
                   rateLimit, alertSent, reqs, ticks>>

SmsNext ==
    \/ BuildPayload
    \/ \E k \in 0..12 : InsertUnknown(k)
    \/ ParseIncomingSMS

SmsSpec == SmsInit /\ [][SmsNext]_vars

SmsParsed == ev.phase = "parsed"
SmsAccepted == SmsParsed /\ ev.parse.err = ""

\* what the parser has to refuse: a missing uid, ts or sig, and a numeric
\* field that is present and is not a number
RefusedFlaws ==
    {"uid missing", "ts missing", "sig missing", "lat not a number",
     "lng not a number", "acc not a number", "cell not a number",
     "bat not a number", "spd not a number"}

\* C21: ParseHeartbeatSMS returns an error and no heartbeat whenever uid, ts
\* or sig is missing and whenever a numeric field that is present (lat, lng,
\* acc, a component of cell, bat, spd) is not a number.
C21_FlawedBodyRefused ==
    (SmsParsed /\ ev.flaws \cap RefusedFlaws # {})
        => ev.parse.err # "" /\ ev.parse.hb = None

\* C21, the failing input: the only flaw of the body is bat=80%, and the
\* parser has returned a heartbeat, without a battery value.
C21_BadBatteryAccepted ==
    /\ SmsAccepted
    /\ ev.flaws = {"bat not a number"}
    /\ IsSome(ev.parse.hb)
    /\ Val(ev.parse.hb).BatteryPct = None
    /\ Val(ev.parse.hb).UserID = "u1"

SigMark == <<";">> \o KeySig \o <<"=">>

\* the positions at which ";sig=" begins in the body
SigMarks(body) ==
    {k \in 1..Len(body) : /\ k + Len(SigMark) - 1 <= Len(body)
                          /\ SubSeq(body, k, k + Len(SigMark) - 1) = SigMark}

\* the body up to the ";sig=" of the signature the parser has kept (the last)
BeforeSig(body) ==
    SubSeq(body, 1, (CHOOSE k \in SigMarks(body) : \A j \in SigMarks(body) : j <= k) - 1)

\* C22: for every body the parser accepts, what is handed to the signature
\* check is exactly the part of the body in front of ";sig=", wherever the
\* sig field stands, however often it occurs and whatever blanks surround
\* its value.
C22_SignedPartPrecedesSig ==
    SmsAccepted => /\ SigMarks(ev.body) # {}
                   /\ ev.signed = BeforeSig(ev.body)

\* C22, the failing input: an otherwise flawless body ends in "sig= ab";
\* the part handed to the signature check is the text in front of ";sig="
\* and the ";" as well.
C22_BlankBeforeSignature ==
    /\ SmsAccepted
    /\ ev.flaws = {"sig spaced"}
    /\ Val(ev.parse.hb).Signature = <<"a", "b">>
    /\ ev.signed = BeforeSig(ev.body) \o <<";">>

\* C23: a heartbeat built into a payload and parsed back comes out with the
\* same user id, timestamp, coordinates, accuracy, cell, battery, speed,
\* last_gasp and signature, absent optional fields staying absent, also
\* when a field with an unknown key was put into the payload.
C23_ParseOfBuildIsSame ==
    (SmsParsed /\ IsSome(ev.src))
        => /\ ev.parse.err = ""
           /\ ev.parse.hb = ev.src

\* a non-negative value in 10^-k units rounded to d decimals
RoundedTo(x, k, d) ==
    Float(((2 * x.v + Pow10(k - d)) \div (2 * Pow10(k - d))) * Pow10(k - d))

\* the heartbeat as far as the payload can carry it: whole seconds,
\* coordinates with six decimals, speed with one decimal
AsCarried(h) ==
    [h EXCEPT !.Timestamp = (h.Timestamp \div 1000) * 1000,
              !.Lat = RoundedTo(h.Lat, CoordDigits, 6),
              !.Lng = RoundedTo(h.Lng, CoordDigits, 6),
              !.Speed = IF IsSome(h.Speed)
                        THEN Some(RoundedTo(Val(h.Speed), SpeedDigits, 1))
                        ELSE None]

\* C23, amended: a heartbeat built into a payload and parsed back comes out
\* with the timestamp cut to whole seconds, the coordinates rounded to six
\* decimals and the speed rounded to one decimal, and is the same in every
\* other field, absent optional fields staying absent, also when a field
\* with an unknown key was put into the payload.
C23_ParseOfBuildIsAsCarried ==
    (SmsParsed /\ IsSome(ev.src))
        => /\ ev.parse.err = ""
           /\ ev.parse.hb = Some(AsCarried(Val(ev.src)))

\* C23: a heartbeat with fractional seconds, a seven-decimal latitude and a
\* two-decimal speed has been built, has picked up a foreign field and has
\* been parsed back, rounded.
C23_RoundedOnTheWay ==
    /\ SmsAccepted /\ IsSome(ev.src) /\ ev.foreign
    /\ Val(ev.src).Speed = Some(Float(1234))
    /\ Val(ev.src).Timestamp = 7500
    /\ Val(ev.src).Lat = Float(65244001)
    /\ IsSome(Val(ev.src).BatteryPct) /\ Val(ev.src).LastGasp
    /\ Val(ev.parse.hb).Speed = Some(Float(1230))
    /\ Val(ev.parse.hb).Timestamp = 7000
    /\ Val(ev.parse.hb).Lat = Float(65244000)
    /\ Val(ev.parse.hb).BatteryPct = Val(ev.src).BatteryPct

\* C24: every LastGasp row comes from the ingest of a persisted heartbeat of
\* the same user with last_gasp = true, carries that heartbeat's accuracy
\* and cell reading and expires LastGaspTimeout after its creation; a row
\* once written stays; and every accepted heartbeat with last_gasp = true
\* has its LastGasp row by the time its evaluation is started.
C24_LastGaspRowsFollowHeartbeats ==
    /\ \A l \in lastGasps :
         /\ reqs[l.ID].lgStored
         /\ l.ExpiryTs = l.CreatedAt + cfg.LastGaspTimeoutSeconds
         /\ \E h \in heartbeats :
              /\ h.ID = l.ID /\ h.UserID = l.UserID /\ h.LastGasp
              /\ h.AccuracyM = l.AccuracyM /\ h.RSSI = l.RSSI
    /\ \A i \in Slots :
         /\ reqs[i].lgStored => Cardinality(RowsOf(lastGasps, i)) = 1
         /\ (Spawned(i) /\ \E h \in heartbeats : h.ID = i /\ h.LastGasp)
               => RowsOf(lastGasps, i) # {}

\* C24, the failing input: the heartbeat with last_gasp = true is stored and
\* answered 200, its LastGasp INSERT failed, and its evaluation found no
\* LastGasp and returned CAUTION / 60.
C24_AcceptedWithoutLastGasp ==
    \E i \in Slots, h \in heartbeats :
        /\ h.ID = i /\ h.LastGasp
        /\ reqs[i].resp = "200"
        /\ lastGasps = {}
        /\ EvaluatedAs(i, StateCaution)
        /\ Val(reqs[i].result).Score = 60

\* EvaluateUserSafety of request i has returned an error
Failed(i) == reqs[i].returned /\ reqs[i].err

\* C25: a run of EvaluateUserSafety that has returned an error has
\* persisted no Alert row and notified no contact, and, no other run of the
\* user being there, the cached state is the one from before the run.
C25_FailedRunLeavesNoTrace ==
    \A i \in Slots :
        Failed(i) =>
            /\ RowsOf(alerts, i) = {}
            /\ reqs[i].smsTo = {}
            /\ OnlyRun(i) => CachedState(reqs[i].uid, now) = reqs[i].cachedAtStart

\* C25, the failing input: the only run of the user scored its heartbeat,
\* wrote the new state over an empty cache, then failed reading the
\* previous state and returned an error.
C25_FailedAfterStateWritten ==
    \E i \in Slots :
        /\ Failed(i) /\ OnlyRun(i)
        /\ reqs[i].scored
        /\ reqs[i].cachedAtStart = None
        /\ IsSome(userState[reqs[i].uid])
        /\ Val(userState[reqs[i].uid]).State = Val(reqs[i].result).State
        /\ RowsOf(alerts, i) = {}

\* the user's device holds a push token (the service keeps no record of
\* push tokens; SendSilentPing takes the token as its argument)
HasPushToken(u) == u \in Registered

\* C26: an evaluation that has moved a user into CAUTION, the cached state
\* having been absent or different before, has dispatched the silent push
\* when the user has a push token.
C26_CautionSendsSilentPing ==
    \A i \in Slots :
        (/\ EvaluatedAs(i, StateCaution)
         /\ reqs[i].cachedAtStart # Some(StateCaution)
         /\ HasPushToken(reqs[i].uid))
            => reqs[i].pinged

\* C26, the failing input: the only run of a user with nothing cached has
\* scored CAUTION, cached it and finished, and no push was dispatched.
C26_CautionWithoutPing ==
    \E i \in Slots :
        /\ OnlyRun(i) /\ HasPushToken(reqs[i].uid)
        /\ EvaluatedAs(i, StateCaution) /\ reqs[i].scored
        /\ reqs[i].cachedAtStart = None
        /\ CachedState(reqs[i].uid, now) = Some(StateCaution)
        /\ reqs[i].pc = "done"
        /\ ~reqs[i].pinged

(***************************************************************************)
(* Two registered users (PairSpec): the service as in Spec, both user ids  *)
(* of the model being rows of the users table, with different contacts.    *)
(***************************************************************************)
PairContacts == [u \in UserIds |-> IF u \in Registered THEN {"c1", "c2"} ELSE {"c9"}]

PairInit ==
    /\ now = 0
    /\ cfg = DefaultConfig
    /\ users = PairContacts
    /\ heartbeats = {}
    /\ lastGasps = {}
    /\ alerts = {}
    /\ userState = [u \in UserIds |-> None]
    /\ rateLimit = [u \in UserIds |-> None]
    /\ alertSent = [u \in UserIds |-> None]
    /\ reqs = [i \in 1..MaxReq |-> IdleReq]
    /\ ticks = 0
    /\ ev = NoEval

PairSpec == PairInit /\ [][Next]_vars

\* something kept for user u is not what it was: a cache entry or a row
TouchedFor(u) ==
    \/ userState'[u] # userState[u]
    \/ rateLimit'[u] # rateLimit[u]
    \/ alertSent'[u] # alertSent[u]
    \/ {h \in heartbeats' : h.UserID = u} # {h \in heartbeats : h.UserID = u}
    \/ {l \in lastGasps' : l.UserID = u} # {l \in lastGasps : l.UserID = u}
    \/ {a \in alerts' : a.UserID = u} # {a \in alerts : a.UserID = u}

\* the step was taken by a request, evaluation or dispatch of user u
ActedFor(u) == \E i \in Slots : reqs'[i] # reqs[i] /\ reqs'[i].uid = u

\* what request i and its evaluation got to see belongs to their own user
ReadsOwnData(i) ==
    LET u == reqs[i].uid
        own == {j \in Slots \ {i} : reqs[j].uid = u}
    IN  /\ reqs[i].resp = "429"
           => \E j \in own : /\ reqs[j].kind = "http"
                             /\ reqs[j].count >= 1
                             /\ reqs[j].submittedAt <= reqs[i].submittedAt
        /\ EvaluatedAs(i, StateWaitLastGasp) => \E l \in lastGasps : l.UserID = u
        /\ (Evaluated(i) /\ reqs[i].scored)
           => \E h \in heartbeats : h.UserID = u /\ h.Timestamp = reqs[i].hbTs
        /\ IsSome(reqs[i].prev)
           => \E j \in own \cup {i} : /\ reqs[j].scored
                                      /\ Val(reqs[j].result).State = Val(reqs[i].prev)
        /\ reqs[i].markSeen => \E j \in own : IsSome(reqs[j].markedAt)
        /\ reqs[i].contacts \subseteq users[u]
        /\ reqs[i].smsTo \subseteq users[u]

ShutdownTimeout == 5
MaxHandlers == 2
MaxTasks == 2
MaxShutdownClock == 6

ShutdownUnchanged ==
    UNCHANGED <<cfg, users, heartbeats, lastGasps, alerts, userState,
                rateLimit, alertSent, reqs, ticks>>

ShutdownInit ==
    /\ now = 0
    /\ cfg = DefaultConfig
    /\ users = Contacts
    /\ heartbeats = {}
    /\ lastGasps = {}
    /\ alerts = {}
    /\ userState = [u \in UserIds |-> None]
    /\ rateLimit = [u \in UserIds |-> None]
    /\ alertSent = [u \in UserIds |-> None]
    /\ reqs = [i \in 1..MaxReq |-> IdleReq]
    /\ ticks = 0
    /\ ev = [phase |-> "serving", handlers |-> 0, tasks |-> 0, signalAt |-> None,
             redisClosed |-> FALSE, postgresClosed |-> FALSE,
             acceptedLate |-> FALSE, usedClosed |-> FALSE, fatal |-> FALSE]

\* the listener accepts a request and its handler starts
AcceptRequest ==
    /\ ev.phase = "serving"
    /\ ev.handlers < MaxHandlers
    /\ ev' = [ev EXCEPT !.handlers = @ + 1]
    /\ UNCHANGED now /\ ShutdownUnchanged

\* a handler returns, having spawned its evaluation goroutine or not
HandlerReturns(spawn) ==
    /\ ev.phase \in {"serving", "draining"}
    /\ ev.handlers > 0
    /\ spawn => ev.tasks < MaxTasks
    /\ ev' = [ev EXCEPT !.handlers = @ - 1,
                        !.tasks = IF spawn THEN @ + 1 ELSE @]
    /\ UNCHANGED now /\ ShutdownUnchanged

\* an evaluation or dispatch goroutine makes a Store or StateCache call
TaskCall ==
    /\ ev.phase # "exited"
    /\ ev.tasks > 0
    /\ ev' = [ev EXCEPT !.usedClosed = @ \/ ev.redisClosed \/ ev.postgresClosed]
    /\ UNCHANGED now /\ ShutdownUnchanged

\* a goroutine comes to its end
TaskEnds ==
    /\ ev.phase # "exited"
    /\ ev.tasks > 0
    /\ ev' = [ev EXCEPT !.tasks = @ - 1]
    /\ UNCHANGED now /\ ShutdownUnchanged

\* <-quit: SIGINT or SIGTERM; srv.Shutdown closes the listener
Signal ==
    /\ ev.phase = "serving"
    /\ ev' = [ev EXCEPT !.phase = "draining", !.signalAt = Some(now)]
    /\ UNCHANGED now /\ ShutdownUnchanged

\* srv.Shutdown returns nil: no handler is left; main returns and its
\* deferred calls begin
ShutdownDrained ==
    /\ ev.phase = "draining"
    /\ ev.handlers = 0
    /\ ev' = [ev EXCEPT !.phase = "closing"]
    /\ UNCHANGED now /\ ShutdownUnchanged

\* srv.Shutdown returns the context's error: log.Fatalf, that is os.Exit(1);
\* deferred calls do not run
ShutdownDeadline ==
    /\ ev.phase = "draining"
    /\ ev.handlers > 0
    /\ now >= Val(ev.signalAt) + ShutdownTimeout
    /\ ev' = [ev EXCEPT !.phase = "exited", !.fatal = TRUE,
                        !.handlers = 0, !.tasks = 0]
    /\ UNCHANGED now /\ ShutdownUnchanged

\* defer redis.Close() runs first, being deferred last
CloseRedis ==
    /\ ev.phase = "closing"
    /\ ~ev.redisClosed
    /\ ev' = [ev EXCEPT !.redisClosed = TRUE]
    /\ UNCHANGED now /\ ShutdownUnchanged

\* defer postgres.Close()
ClosePostgres ==
    /\ ev.phase = "closing"
    /\ ev.redisClosed /\ ~ev.postgresClosed
    /\ ev' = [ev EXCEPT !.postgresClosed = TRUE]
    /\ UNCHANGED now /\ ShutdownUnchanged

\* main has returned: the process ends, and its goroutines with it
ProcessExits ==
    /\ ev.phase = "closing"
    /\ ev.postgresClosed
    /\ ev' = [ev EXCEPT !.phase = "exited", !.tasks = 0]
    /\ UNCHANGED now /\ ShutdownUnchanged

ShutdownTick ==
    /\ ev.phase # "exited"
    /\ now < MaxShutdownClock
    /\ now' = now + 1
    /\ UNCHANGED ev /\ ShutdownUnchanged

ShutdownNext ==
    \/ AcceptRequest
    \/ \E spawn \in BOOLEAN : HandlerReturns(spawn)
    \/ TaskCall
    \/ TaskEnds
    \/ Signal
    \/ ShutdownDrained
    \/ ShutdownDeadline
    \/ CloseRedis
    \/ ClosePostgres
    \/ ProcessExits
    \/ ShutdownTick

ShutdownSpec == ShutdownInit /\ [][ShutdownNext]_vars

\* C28: after the signal no request is accepted; the wait for the handlers
\* is given up no earlier than 5 seconds after the signal; the process ends
\* with the Store and the StateCache closed, also when the wait was given
\* up; and no goroutine calls the Store or the StateCache once closed.
C28_ShutdownClosesStores ==
    /\ ~ev.acceptedLate
    /\ ev.fatal => now >= Val(ev.signalAt) + ShutdownTimeout
    /\ ev.phase = "exited" => ev.redisClosed /\ ev.postgresClosed
    /\ ~ev.usedClosed

\* C28, the failing input: a handler was still running 5 seconds after the
\* signal, and the process has ended with neither the Store nor the
\* StateCache closed.
C28_ExitedWithoutClose ==
    /\ ev.phase = "exited" /\ ev.fatal
    /\ now = Val(ev.signalAt) + ShutdownTimeout
    /\ ~ev.redisClosed /\ ~ev.postgresClosed

(***************************************************************************)
(* Four evaluator runs of one user side by side (StormSpec): as in         *)
(* RaceSpec, with three degraded heartbeats instead of two in front of the *)
(* healthy one.  The clock stands still and every SMS is delivered.        *)
(***************************************************************************)
StormRuns == 4

StormArrival(i) == IF i < StormRuns THEN 0 ELSE RaceClock
StormTelemetry(i) == IF i < StormRuns THEN BadTelemetry ELSE GoodTelemetry

StormHeartbeat(i) ==
    LET tel == StormTelemetry(i) IN
    [ID |-> i, UserID |-> RaceUser, Source |-> "sms", Timestamp |-> StormArrival(i),
     AccuracyM |-> tel.AccuracyM, Speed |-> tel.Speed, RSSI |-> tel.RSSI,
     BatteryPct |-> tel.BatteryPct, LastGasp |-> FALSE,
     Signature |-> ClientSignature("valid", RaceUser, StormArrival(i), tel, FALSE),
     CreatedAt |-> StormArrival(i)]

StormRun(i) ==
    LET d == DecideOnHeartbeat(Some(StormHeartbeat(i)), RaceClock, DefaultConfig) IN
    [IdleReq EXCEPT !.pc = "e_set", !.kind = "sms", !.uid = RaceUser,
                    !.how = "valid", !.submittedAt = StormArrival(i),
                    !.resp = "200", !.hbStored = TRUE,
                    !.result = Some(d.result), !.scored = d.scored,
                    !.startAt = RaceClock, !.evalAt = RaceClock,
                    !.hbTs = StormArrival(i)]

StormInit ==
    /\ now = RaceClock
    /\ cfg = DefaultConfig
    /\ users = Contacts
    /\ heartbeats = {StormHeartbeat(i) : i \in 1..StormRuns}
    /\ lastGasps = {}
    /\ alerts = {}
    /\ userState = [u \in UserIds |-> None]
    /\ rateLimit = [u \in UserIds |-> None]
    /\ alertSent = [u \in UserIds |-> None]
    /\ reqs = [i \in 1..StormRuns |-> StormRun(i)]
    /\ ticks = 0
    /\ ev = NoEval

StormNext ==
    \/ \E i \in Slots : EvalSetUserState(i)
    \/ \E i \in Slots : EvalGetUserState(i)
    \/ \E i \in Slots : EvalCheckAlertSent(i)
    \/ \E i \in Slots : EvalCreateAlert(i)
    \/ \E i \in Slots : EvalSpawnDispatch(i)
    \/ \E i \in Slots : SendAlertToContacts(i, {})
    \/ \E i \in Slots : MarkAlertSent(i)

StormSpec == StormInit /\ [][StormNext]_vars

\* C29: of the dispatch bursts of one user, no three fall into one window
\* of five minutes, and no three Alert rows are created within one,
\* however the evaluator runs interleave.
C29_AtMostTwoBursts ==
    \A u \in UserIds :
        /\ \A i, j, k \in BurstsOf(u) :
             (i # j /\ j # k /\ i # k)
                => \/ Dist(Val(reqs[i].burstAt), Val(reqs[j].burstAt)) >= AlertDedupWindow
                   \/ Dist(Val(reqs[j].burstAt), Val(reqs[k].burstAt)) >= AlertDedupWindow
                   \/ Dist(Val(reqs[i].burstAt), Val(reqs[k].burstAt)) >= AlertDedupWindow
        /\ \A a, b, c \in AlertsOf(u) :
             (a.ID # b.ID /\ b.ID # c.ID /\ a.ID # c.ID)
                => \/ Dist(a.CreatedAt, b.CreatedAt) >= AlertDedupWindow
                   \/ Dist(b.CreatedAt, c.CreatedAt) >= AlertDedupWindow
                   \/ Dist(a.CreatedAt, c.CreatedAt) >= AlertDedupWindow

\* C29, the failing input: three AT_RISK runs got past the dedup check
\* before any of them had written the mark; three Alert rows exist and three
\* bursts went out at the same second.
C29_ThreeBurstsAtOnce ==
    /\ Cardinality(BurstsOf(RaceUser)) = 3
    /\ Cardinality(AlertsOf(RaceUser)) = 3
    /\ \A i \in BurstsOf(RaceUser) :
         /\ reqs[i].burstAt = Some(RaceClock)
         /\ reqs[i].markBefore = None
         /\ Val(reqs[i].result).State = StateAtRisk

\* the runs of user u that went through SetUserState without any failure
Writers(u) ==
    {i \in Slots : /\ reqs[i].uid = u /\ reqs[i].pc = "done"
                   /\ reqs[i].scored /\ ~reqs[i].cancelled}

\* did run i write the record that the StateCache holds for its user
LeftBy(i) ==
    /\ IsSome(userState[reqs[i].uid])
    /\ Val(userState[reqs[i].uid]).LastHeartbeat = reqs[i].hbTs
    /\ Val(userState[reqs[i].uid]).State = Val(reqs[i].result).State
    /\ Val(userState[reqs[i].uid]).Score = Val(reqs[i].result).Score

\* C30: once all evaluator runs have finished, the UserState that the
\* StateCache holds for a user is the one written by a run that read the
\* newest heartbeat any run of that user has read: the state of a run that
\* read an older heartbeat is never left over it.
C30_CacheHoldsLatestDecision ==
    Quiet =>
        \A u \in UserIds :
            Writers(u) # {} =>
                \E j \in Writers(u) :
                    /\ \A i \in Writers(u) : reqs[i].hbTs <= reqs[j].hbTs
                    /\ LeftBy(j)

\* C30, the failing input: two runs of one user have finished without any
\* failure; the one that read the older heartbeat wrote last, and the cache
\* holds its state, which differs from the state decided on the newer one.
C30_StaleStateLeft ==
    /\ Quiet
    /\ \E i, j \in Slots :
         /\ i \in Writers(reqs[i].uid) /\ j \in Writers(reqs[i].uid)
         /\ reqs[i].hbTs < reqs[j].hbTs
         /\ LeftBy(i)
         /\ Val(reqs[i].result).State # Val(reqs[j].result).State
         /\ \A h \in HbOf(reqs[i].uid) : h.Timestamp <= reqs[j].hbTs

\* the runs of user u whose dispatch goroutine has written the mark
Markers(u) == {i \in Slots : reqs[i].uid = u /\ IsSome(reqs[i].markedAt)}

\* C31: the AlertSent mark of a user exists only if a dispatch goroutine of
\* that user wrote it after its SendAlertToContacts had returned, an SMS
\* having been attempted for every trusted contact; a goroutine that has not
\* finished its burst has written no mark; and the mark is found exactly
\* during the five minutes after it was last written.
C31_MarkFollowsDispatch ==
    /\ \A u \in UserIds :
         /\ IsSome(alertSent[u]) <=> Markers(u) # {}
         /\ CheckAlertSent(u, now)
              <=> /\ IsSome(LastMark(u))
                  /\ now < Val(LastMark(u)) + AlertDedupWindow
    /\ \A i \in Slots :
         /\ IsSome(reqs[i].markedAt)
              => /\ IsSome(reqs[i].burstAt)
                 /\ Val(reqs[i].burstAt) <= Val(reqs[i].markedAt)
                 /\ reqs[i].smsTo = reqs[i].contacts
                 /\ reqs[i].pc = "done"
         /\ reqs[i].pc \notin {"done"} => reqs[i].markedAt = None

\* C31: a mark written after a burst to every contact is gone five minutes
\* later.
C31_MarkExpired ==
    \E i \in Slots :
        /\ IsSome(reqs[i].markedAt)
        /\ reqs[i].smsTo # {}
        /\ now = Val(reqs[i].markedAt) + AlertDedupWindow
        /\ IsSome(alertSent[reqs[i].uid])
        /\ ~CheckAlertSent(reqs[i].uid, now)

(***************************************************************************)
(* The dispatch goroutine contact by contact (DispatchSpec): the loop of   *)
(* AlertEngine.SendAlertToContacts over user.TrustedContacts, with the     *)
(* outcome of every Twilio call chosen freely, and the MarkAlertSent that  *)
(* follows.  The Alert row of the evaluation is already in the Store.      *)
(***************************************************************************)
MaxContacts == 3

Phones == 1..MaxContacts

\* the values of user.TrustedContacts: lists of distinct phones
ContactLists ==
    {s \in UNION {[1..n -> Phones] : n \in 0..MaxContacts} :
        \A a, b \in DOMAIN s : a # b => s[a] # s[b]}

DispatchAlert ==
    LET res == ScoreToResult(40) IN
    [ID |-> 1, UserID |-> RaceUser, State |-> res.State, Score |-> res.Score,
     Reason |-> res.Reason, SentTo |-> <<>>, CreatedAt |-> 0, ResolvedAt |-> None]

DispatchInit ==
    /\ now = 0
    /\ cfg = DefaultConfig
    /\ users = Contacts
    /\ heartbeats = {}
    /\ lastGasps = {}
    /\ alerts = {DispatchAlert}
    /\ userState = [u \in UserIds |-> None]
    /\ rateLimit = [u \in UserIds |-> None]
    /\ alertSent = [u \in UserIds |-> None]
    /\ reqs = [i \in 1..MaxReq |-> IdleReq]
    /\ ticks = 0
    /\ \E cs \in ContactLists :
         ev = [phase |-> "spawned", contacts |-> cs, at |-> 1, step |-> "sms",
               sms |-> <<>>, whatsapp |-> <<>>, errors |-> <<>>,
               whatsappFailed |-> {}, err |-> "none"]

DispatchUnchanged ==
    UNCHANGED <<now, cfg, users, heartbeats, lastGasps, alerts, userState,
                rateLimit, reqs, ticks>>

\* len(user.TrustedContacts) == 0, or the loop is entered
DispatchEnter ==
    /\ ev.phase = "spawned"
    /\ ev' = IF Len(ev.contacts) = 0
             THEN [ev EXCEPT !.phase = "returned", !.err = "no trusted contacts configured"]
             ELSE [ev EXCEPT !.phase = "loop"]
    /\ UNCHANGED alertSent
    /\ DispatchUnchanged

\* a loop that would give up at the first SMS that fails
SendSMSUntilFailure(ok) ==
    /\ ev.phase = "loop" /\ ev.step = "sms" /\ ev.at <= Len(ev.contacts)
    /\ ev' = [ev EXCEPT !.sms = Append(@, ev.contacts[ev.at]),
                        !.errors = IF ok THEN @ ELSE Append(@, ev.contacts[ev.at]),
                        !.step = IF ok THEN "whatsapp" ELSE "sms",
                        !.at = IF ok THEN @ ELSE Len(ev.contacts) + 1]
    /\ UNCHANGED alertSent
    /\ DispatchUnchanged

\* ae.SendSMS(contact.Phone, message); a failure is appended to errors
SendSMS(ok) ==
    /\ ev.phase = "loop" /\ ev.step = "sms" /\ ev.at <= Len(ev.contacts)
    /\ ev' = [ev EXCEPT !.sms = Append(@, ev.contacts[ev.at]),
                        !.errors = IF ok THEN @ ELSE Append(@, ev.contacts[ev.at]),
                        !.step = "whatsapp"]
    /\ UNCHANGED alertSent
    /\ DispatchUnchanged

\* ae.SendWhatsApp(contact.Phone, message); a failure is only printed
SendWhatsApp(ok) ==
    /\ ev.phase = "loop" /\ ev.step = "whatsapp"
    /\ ev' = [ev EXCEPT !.whatsapp = Append(@, ev.contacts[ev.at]),
                        !.whatsappFailed = IF ok THEN @ ELSE @ \cup {ev.contacts[ev.at]},
                        !.step = "sms", !.at = @ + 1]
    /\ UNCHANGED alertSent
    /\ DispatchUnchanged

\* after the loop: "some alerts failed: %v" if errors is not empty, else nil
DispatchReturn ==
    /\ ev.phase = "loop" /\ ev.step = "sms" /\ ev.at > Len(ev.contacts)
    /\ ev' = [ev EXCEPT !.phase = "returned",
                        !.err = IF Len(ev.errors) > 0 THEN "some alerts failed" ELSE "nil"]
    /\ UNCHANGED alertSent
    /\ DispatchUnchanged

\* the goroutine prints the error, if any, and calls redis.MarkAlertSent
DispatchMark ==
    /\ ev.phase = "returned"
    /\ alertSent' = [alertSent EXCEPT ![RaceUser] = Some([exp |-> Some(now + AlertDedupWindow)])]
    /\ ev' = [ev EXCEPT !.phase = "marked"]
    /\ DispatchUnchanged

DispatchNext ==
    \/ DispatchEnter
    \/ \E ok \in BOOLEAN : SendSMS(ok)
    \/ \E ok \in BOOLEAN : SendWhatsApp(ok)
    \/ DispatchReturn
    \/ DispatchMark

DispatchSpec == DispatchInit /\ [][DispatchNext]_vars

\* the phones at the positions of a list, as a set
Among(s) == {s[k] : k \in DOMAIN s}

\* C32: once SendAlertToContacts has returned for a user with contacts, an SMS
\* has been attempted for every contact, in order, whatever failed before;
\* the error returned is nil exactly when no SMS failed, and otherwise the one
\* error that lists every contact whose SMS failed; WhatsApp failures change
\* nothing of that; and the Alert row is still in the Store.
C32_EveryContactAttempted ==
    /\ alerts = {DispatchAlert}
    /\ (ev.phase \in {"returned", "marked"} /\ Len(ev.contacts) > 0)
         => /\ ev.sms = ev.contacts
            /\ ev.whatsapp = ev.contacts
            /\ Among(ev.errors) \subseteq Among(ev.contacts)
            /\ ev.err = "nil" <=> ev.errors = <<>>
            /\ ev.err = "some alerts failed" <=> ev.errors # <<>>
    /\ ev.phase = "loop"
         => /\ ev.sms = SubSeq(ev.contacts, 1, Len(ev.sms))
            /\ Len(ev.sms) \in {ev.at - 1, ev.at}

\* C32: the SMS to the first contact failed, the SMS to a later contact was
\* still sent and got through, a WhatsApp message failed for a contact whose
\* SMS got through, and the one error returned names the first contact only.
C32_FailureDidNotStopTheLoop ==
    /\ ev.phase = "returned"
    /\ Len(ev.contacts) >= 2
    /\ ev.errors = <<ev.contacts[1]>>
    /\ ev.err = "some alerts failed"
    /\ ev.contacts[2] \in Among(ev.sms)
    /\ ev.contacts[2] \in ev.whatsappFailed
    /\ alerts = {DispatchAlert}

\* the contacts whose SMS got through
NotifiedByDispatch == Among(ev.sms) \ Among(ev.errors)

\* C35: the AlertSent mark of the user is set only if the SMS to at least one
\* trusted contact got through.
C35_MarkOnlyAfterANotification ==
    IsSome(alertSent[RaceUser]) => NotifiedByDispatch # {}

\* C35, the failing input: the user has two contacts, both SMS failed, and
\* the mark is set for the next five minutes.
C35_MarkedThoughNobodyNotified ==
    /\ ev.phase = "marked"
    /\ Len(ev.contacts) = 2
    /\ Among(ev.errors) = Among(ev.contacts)
    /\ ev.err = "some alerts failed"
    /\ CheckAlertSent(RaceUser, now)

(***************************************************************************)
(* The rate limiter alone (LimiterSpec): POST /v1/heartbeat requests of    *)
(* one user up to the answer of CheckRateLimit, with a clock that moves by *)
(* steps around the 30 s window.  The EXPIRE that follows the first INCR   *)
(* can fail (the request context is cancelled when the client goes away,   *)
(* or Redis is unreachable); CheckRateLimit drops its error.               *)
(***************************************************************************)
LimiterReqs == 3
MaxLimiterClock == 62

LimiterSteps == {RateLimitWindow - 1, RateLimitWindow + 1}

LimiterInit ==
    /\ now = 0
    /\ cfg = DefaultConfig
    /\ users = Contacts
    /\ heartbeats = {}
    /\ lastGasps = {}
    /\ alerts = {}
    /\ userState = [u \in UserIds |-> None]
    /\ rateLimit = [u \in UserIds |-> None]
    /\ alertSent = [u \in UserIds |-> None]
    /\ reqs = [i \in 1..LimiterReqs |-> IdleReq]
    /\ ticks = 0
    /\ ev = NoEval

\* CheckRateLimit, second call: EXPIRE returns an error, which is dropped
HTTPExpireFails(i) ==
    /\ reqs[i].pc = "h_expire"
    /\ Upd(i, IF reqs[i].count <= RateLimitLimit
              THEN [reqs[i] EXCEPT !.pc = "h_user"]
              ELSE Respond(reqs[i], "429"))
    /\ UNCHANGED <<now, cfg, users, heartbeats, lastGasps, alerts, userState,
                   rateLimit, alertSent, ticks, ev>>

LimiterElapse(d) ==
    /\ now + d <= MaxLimiterClock
    /\ now' = now + d
    /\ UNCHANGED <<cfg, users, heartbeats, lastGasps, alerts, userState,
                   rateLimit, alertSent, reqs, ticks, ev>>

LimiterNext ==
    \/ \E i \in Slots : HTTPSubmit(i, RaceUser, 0, NoPayload, "valid")
    \/ \E i \in Slots : HTTPExpire(i)
    \/ \E i \in Slots : HTTPExpireFails(i)
    \/ \E d \in LimiterSteps : LimiterElapse(d)

LimiterSpec == LimiterInit /\ [][LimiterNext]_vars

\* the requests that arrived before request i and found no counter: each of
\* them opened a window
OpenersBefore(i) ==
    {k \in Slots : k < i /\ reqs[k].uid = reqs[i].uid /\ reqs[k].kind = "http"
                         /\ reqs[k].count = 1}

RateLimited(i) == reqs[i].kind = "http" /\ reqs[i].count > RateLimitLimit

\* C33: a request is answered 429 exactly when the counter was above the
\* limit; a request that arrives less than 30 s after a request that opened
\* a window is rate-limited; and a rate-limited request has arrived at most
\* 30 s after some request that opened a window, so that nobody is
\* rate-limited for longer than that.
C33_FixedWindow ==
    \A i \in Slots :
        /\ reqs[i].resp = "429" <=> RateLimited(i)
        /\ (reqs[i].count >= 1
            /\ \E k \in OpenersBefore(i) :
                 reqs[i].submittedAt - reqs[k].submittedAt < RateLimitWindow)
              => RateLimited(i)
        /\ RateLimited(i)
              => \E k \in OpenersBefore(i) :
                   reqs[i].submittedAt - reqs[k].submittedAt <= RateLimitWindow

\* C33, the failing input: the EXPIRE after the first INCR failed; the
\* counter has no TTL, and a request that arrives more than 30 s after the
\* only request that opened a window is answered 429, as every later one
\* will be.
C33_LimitedForever ==
    \E i \in Slots :
        /\ reqs[i].resp = "429"
        /\ Cardinality(OpenersBefore(i)) = 1
        /\ \A k \in OpenersBefore(i) :
             /\ reqs[k].pc = "h_user"
             /\ reqs[i].submittedAt - reqs[k].submittedAt > RateLimitWindow
        /\ IsSome(rateLimit[reqs[i].uid])
        /\ Val(rateLimit[reqs[i].uid]).exp = None
        /\ \A j \in Slots : reqs[j].pc # "h_expire"

\* C34: a correctly signed POST /v1/heartbeat of an existing user is answered
\* 429 only because of an earlier request of that user that opened the window
\* and was not refused with 401, 404 or 500.
C34_RefusedRequestsCostNothing ==
    \A i \in Slots :
        (RateLimited(i) /\ reqs[i].how = "valid" /\ reqs[i].uid \in DOMAIN users)
           => \E k \in OpenersBefore(i) : reqs[k].resp \notin {"401", "404", "500"}

\* C34, the failing input: the only earlier request with this user_id failed
\* signature verification, and the correctly signed request that follows it
\* is answered 429.
C34_LockedOutByBadSignature ==
    \E i \in Slots :
        /\ reqs[i].resp = "429" /\ reqs[i].how = "valid"
        /\ reqs[i].uid \in DOMAIN users
        /\ OpenersBefore(i) # {}
        /\ \A k \in OpenersBefore(i) : reqs[k].resp = "401" /\ ~reqs[k].hbStored
        /\ HbOf(reqs[i].uid) = {}

\* is a state the one of the band that a score lies in
InBand(state, score) ==
    /\ state = StateSafe => score >= 80
    /\ state = StateCaution => 50 <= score /\ score < 80
    /\ state = StateAtRisk => score < 50

\* C36: every result of an evaluation whose state is not WAIT_LASTGASP, be it
\* the bootstrap result, a result of the deterministic rules or a scored one,
\* has a state in {SAFE, CAUTION, AT_RISK} that agrees with the band of its
\* score.
C36_StateAgreesWithScore ==
    (EvDecided /\ Val(ev.result).State # StateWaitLastGasp)
       => /\ Val(ev.result).State \in {StateSafe, StateCaution, StateAtRisk}
          /\ InBand(Val(ev.result).State, Val(ev.result).Score)

\* C36: a deterministic result on a recent last-gasp heartbeat, CAUTION with
\* the fixed score 60, although the telemetry of the heartbeat would have
\* been scored below 50.
C36_DeterministicCautionInBand ==
    /\ EvOnHeartbeat /\ ~ev.scored
    /\ Val(ev.result) = EvaluationResult(StateCaution, 60, <<"LastGasp received - monitoring">>)
    /\ calculateSafetyScore(Val(ev.hb), now) < 50

NoAlertTrace(i) ==
    /\ reqs[i].alertId = None
    /\ \A a \in alerts : a.ID # i
    /\ reqs[i].burstAt = None /\ reqs[i].smsTo = {}
    /\ reqs[i].markedAt = None

\* C38: an evaluation whose result is SAFE, CAUTION or WAIT_LASTGASP, and an
\* evaluation that found its own new state in the StateCache, creates no
\* Alert row, sends nothing and does not set the AlertSent mark.
C38_NoTransitionNoAlert ==
    \A i \in Slots :
        (/\ IsSome(reqs[i].result)
         /\ \/ Val(reqs[i].result).State \in {StateSafe, StateCaution, StateWaitLastGasp}
            \/ reqs[i].prev = Some(Val(reqs[i].result).State))
           => NoAlertTrace(i)

\* C38: an AT_RISK evaluation that found AT_RISK in the StateCache has
\* finished without a trace, while the mark is not set for its user.
C38_AtRiskAgainIsSilent ==
    \E i \in Slots :
        /\ reqs[i].pc = "done" /\ reqs[i].scored /\ ~reqs[i].err
        /\ Val(reqs[i].result).State = StateAtRisk
        /\ reqs[i].prev = Some(StateAtRisk)
        /\ NoAlertTrace(i)
        /\ alertSent[reqs[i].uid] = None

(***************************************************************************)
(* Resolving after an alert (AftermathSpec): the resolve requests of       *)
(* ResolveSpec against a Store and a StateCache that hold what an alert    *)
(* leaves behind: a heartbeat, a LastGasp, the cached AT_RISK state, the   *)
(* AlertSent mark and the rate-limit counter of the user.                  *)
(***************************************************************************)
AftermathHeartbeats == {RaceHeartbeat(1)}

AftermathLastGasps ==
    {[ID |-> 1, UserID |-> RaceUser, AccuracyM |-> BadTelemetry.AccuracyM,
      RSSI |-> BadTelemetry.RSSI, CreatedAt |-> 0,
      ExpiryTs |-> DefaultLastGaspTimeoutSeconds]}

AftermathUserState ==
    [u \in UserIds |->
        IF u = RaceUser
        THEN Some([State |-> StateAtRisk, Score |-> 40, LastHeartbeat |-> 0,
                   exp |-> Some(UserStateTTL)])
        ELSE None]

AftermathAlertSent ==
    [u \in UserIds |-> IF u = RaceUser THEN Some([exp |-> Some(AlertDedupWindow)])
                       ELSE None]

AftermathRateLimit ==
    [u \in UserIds |-> IF u = RaceUser
                       THEN Some([count |-> 1, exp |-> Some(RateLimitWindow)])
                       ELSE None]

AftermathInit ==
    /\ now = 0
    /\ cfg = DefaultConfig
    /\ users = Contacts
    /\ heartbeats = AftermathHeartbeats
    /\ lastGasps = AftermathLastGasps
    /\ \E ids \in SUBSET AlertIds : alerts = {StoredAlert(id) : id \in ids}
    /\ userState = AftermathUserState
    /\ rateLimit = AftermathRateLimit
    /\ alertSent = AftermathAlertSent
    /\ reqs = [i \in 1..MaxReq |-> IdleReq]
    /\ ticks = 0
    /\ ev = NoEval

AftermathSpec == AftermathInit /\ [][ResolveNext]_vars

\* the resolve requests that were answered 200 for alert id
ResolvedBy(id) ==
    {i \in Slots : Resolving(i) /\ reqs[i].resp = "200" /\ ParseAlertId(reqs[i].param) = Some(id)}

\* C39: whatever resolve requests have been served, the cached UserState, the
\* AlertSent mark, the rate-limit counter, the heartbeats and the LastGasps
\* are what they were; every alert is what it was but for resolved_at, which
\* is set only on an alert that a request named; and nothing was sent.
C39_ResolveTouchesOnlyResolvedAt ==
    /\ userState = AftermathUserState
    /\ alertSent = AftermathAlertSent
    /\ rateLimit = AftermathRateLimit
    /\ heartbeats = AftermathHeartbeats
    /\ lastGasps = AftermathLastGasps
    /\ \A a \in alerts :
         /\ [a EXCEPT !.ResolvedAt = None] = StoredAlert(a.ID)
         /\ IsSome(a.ResolvedAt) <=> ResolvedBy(a.ID) # {}
    /\ \A a, b \in alerts : a.ID = b.ID => a = b
    /\ \A i \in Slots : reqs[i].smsTo = {} /\ reqs[i].burstAt = None

\* C39: of two stored alerts one has been resolved and the other has not.
C39_OneOfTwoResolved ==
    /\ \E a, b \in alerts :
         /\ a.ID # b.ID
         /\ IsSome(a.ResolvedAt) /\ b.ResolvedAt = None
         /\ ResolvedBy(a.ID) # {}
    /\ CheckAlertSent(RaceUser, now)
    /\ CachedState(RaceUser, now) = Some(StateAtRisk)

(***************************************************************************)
(* Contact management (ContactsSpec): AddContact, UpdateContact and        *)
(* DeleteContact of PostgresDB called concurrently for one user.           *)
(* AddContact is one UPDATE that appends; UpdateContact and DeleteContact  *)
(* read the user's trusted_contacts with GetUserByID, change the list in   *)
(* memory and write the whole list back with a second statement.           *)
(***************************************************************************)
MaxCalls == 3

\* the contacts the user starts with, and the one that call i would add
InitialContacts ==
    <<[ID |-> 1, Name |-> "a", Phone |-> "p"], [ID |-> 2, Name |-> "a", Phone |-> "p"]>>
AddedBy(i) == [ID |-> 2 + i, Name |-> "a", Phone |-> "p"]

ContactIds == 1..(2 + MaxCalls)

\* the updates map: an absent or empty entry leaves the field alone
ContactUpdates == {[name |-> "b", phone |-> ""], [name |-> "", phone |-> "q"]}

IdleCall == [op |-> "none", id |-> 0, updates |-> [name |-> "", phone |-> ""],
             pc |-> "idle", snapshot |-> <<>>, err |-> "none"]

ContactsInit ==
    /\ now = 0
    /\ cfg = DefaultConfig
    /\ users = Contacts
    /\ heartbeats = {}
    /\ lastGasps = {}
    /\ alerts = {}
    /\ userState = [u \in UserIds |-> None]
    /\ rateLimit = [u \in UserIds |-> None]
    /\ alertSent = [u \in UserIds |-> None]
    /\ reqs = [i \in 1..MaxReq |-> IdleReq]
    /\ ticks = 0
    /\ ev = [trusted_contacts |-> InitialContacts,
             calls |-> [i \in 1..MaxCalls |-> IdleCall]]

ContactsUnchanged ==
    UNCHANGED <<now, cfg, users, heartbeats, lastGasps, alerts, userState,
                rateLimit, alertSent, reqs, ticks>>

\* positions of the contacts with a given id in a list
PositionsOf(list, id) == {k \in DOMAIN list : list[k].ID = id}

\* UPDATE users SET trusted_contacts = trusted_contacts || $1::jsonb
AddContact(i) ==
    /\ ev.calls[i].pc = "idle"
    /\ ev' = [ev EXCEPT !.trusted_contacts = Append(@, AddedBy(i)),
                        !.calls[i] = [IdleCall EXCEPT !.op = "add", !.id = AddedBy(i).ID,
                                                       !.pc = "done", !.err = "nil"]]
    /\ ContactsUnchanged

\* UpdateContact and DeleteContact: db.GetUserByID
ReadContacts(i, op, id, updates) ==
    /\ ev.calls[i].pc = "idle"
    /\ op \in {"update", "delete"}
    /\ ev' = [ev EXCEPT !.calls[i] = [IdleCall EXCEPT !.op = op, !.id = id,
                                                       !.updates = updates, !.pc = "read",
                                                       !.snapshot = ev.trusted_contacts]]
    /\ ContactsUnchanged

\* the loop of UpdateContact: the first contact with the id gets the fields
\* of updates that are not empty
WithUpdates(list, id, updates) ==
    LET first == CHOOSE k \in PositionsOf(list, id) : \A j \in PositionsOf(list, id) : k <= j IN
    [k \in DOMAIN list |->
        IF k = first
        THEN [list[k] EXCEPT !.Name = IF updates.name # "" THEN updates.name ELSE @,
                             !.Phone = IF updates.phone # "" THEN updates.phone ELSE @]
        ELSE list[k]]

\* the loop of DeleteContact: every contact with another id is kept
Without(list, id) ==
    LET Kept(c) == c.ID # id IN SelectSeq(list, Kept)

\* UpdateContact, after the read: "contact not found", or the list that was
\* read is written back with the contact changed
UpdateContact(i) ==
    /\ ev.calls[i].pc = "read" /\ ev.calls[i].op = "update"
    /\ LET call == ev.calls[i] IN
       ev' = IF PositionsOf(call.snapshot, call.id) = {}
             THEN [ev EXCEPT !.calls[i].pc = "done",
                             !.calls[i].err = "contact not found"]
             ELSE [ev EXCEPT !.trusted_contacts =
                                 WithUpdates(call.snapshot, call.id, call.updates),
                             !.calls[i].pc = "done", !.calls[i].err = "nil"]
    /\ ContactsUnchanged

\* DeleteContact, after the read: "contact not found", or the list that was
\* read is written back without the contact
DeleteContact(i) ==
    /\ ev.calls[i].pc = "read" /\ ev.calls[i].op = "delete"
    /\ LET call == ev.calls[i] IN
       ev' = IF PositionsOf(call.snapshot, call.id) = {}
             THEN [ev EXCEPT !.calls[i].pc = "done",
                             !.calls[i].err = "contact not found"]
             ELSE [ev EXCEPT !.trusted_contacts = Without(call.snapshot, call.id),
                             !.calls[i].pc = "done", !.calls[i].err = "nil"]
    /\ ContactsUnchanged

ContactsNext ==
    \/ \E i \in 1..MaxCalls : AddContact(i)
    \/ \E i \in 1..MaxCalls, op \in {"update", "delete"}, id \in ContactIds,
          updates \in ContactUpdates : ReadContacts(i, op, id, updates)
    \/ \E i \in 1..MaxCalls : UpdateContact(i)
    \/ \E i \in 1..MaxCalls : DeleteContact(i)

ContactsSpec == ContactsInit /\ [][ContactsNext]_vars

\* the calls of an operation on contact id that reported success
Succeeded(op, id) ==
    {i \in 1..MaxCalls : /\ ev.calls[i].op = op /\ ev.calls[i].id = id
                         /\ ev.calls[i].pc = "done" /\ ev.calls[i].err = "nil"}

NoCallRunning == \A i \in 1..MaxCalls : ev.calls[i].pc # "read"

\* C40: when no call is running, a contact whose deletion reported success is
\* not in trusted_contacts; a contact that was there at the start or whose
\* addition reported success, and that nobody deleted, is there; and it
\* carries the name and the phone of a successful update of each, if there
\* was one.
C40_ContactCallsSerialisable ==
    NoCallRunning =>
        \A id \in ContactIds :
            LET at == PositionsOf(ev.trusted_contacts, id) IN
            /\ Succeeded("delete", id) # {} => at = {}
            /\ (/\ Succeeded("delete", id) = {}
                /\ \/ PositionsOf(InitialContacts, id) # {}
                   \/ Succeeded("add", id) # {})
                  => /\ Cardinality(at) = 1
                     /\ \A k \in at :
                          /\ (\E i \in Succeeded("update", id) : ev.calls[i].updates.name # "")
                               => ev.trusted_contacts[k].Name = "b"
                          /\ (\E i \in Succeeded("update", id) : ev.calls[i].updates.phone # "")
                               => ev.trusted_contacts[k].Phone = "q"

\* C40, the failing input: a DeleteContact read the list, an AddContact
\* appended to it and reported success, and the DeleteContact wrote its list
\* back: both calls succeeded and the added contact is gone.
C40_AddedContactLost ==
    /\ NoCallRunning
    /\ \E i, j \in 1..MaxCalls :
         /\ i \in Succeeded("add", AddedBy(i).ID)
         /\ j \in Succeeded("delete", 1)
         /\ Succeeded("delete", AddedBy(i).ID) = {}
         /\ PositionsOf(ev.trusted_contacts, AddedBy(i).ID) = {}
         /\ PositionsOf(ev.calls[j].snapshot, AddedBy(i).ID) = {}

=============================================================================
